---------------------------- MODULE Spec2Model ----------------------------
(***************************************************************************)
(* Verification model of the Rubik's cube solvers of this repository:      *)
(* the facelet cube (src/cube/rubik_cube.py), the cubie cube and the       *)
(* coordinates of the two-phase solver (src/kociemba), the four-phase      *)
(* solver with its fallback (src/thistlethwaite) and the A* / IDA*         *)
(* solvers (src/korf).  Arrays keep the 0-based indices of the source.     *)
(***************************************************************************)
EXTENDS Integers, Sequences, FiniteSets, TLC

(***************************************************************************)
(* Facelet cube: src/cube/rubik_cube.py                                    *)
(***************************************************************************)
FU == 0
FD == 1
FF == 2
FB == 3
FL == 4
FR == 5

Faces == 0..5
Cells == 0..8

\* F(x), with x evaluated once however often F uses it.
At(x, F(_)) == CHOOSE r \in {F(v) : v \in {x}} : TRUE

\* RubikCube.__init__/reset: face f is filled with colour f.
SolvedCube == [f \in Faces |-> [i \in Cells |-> f]]

\* Every sticker is compared with the first sticker of the first face.
is_solved_one_colour(s) == \A f \in Faces : \A i \in Cells : s[f][i] = s[0][0]

\* RubikCube.is_solved: every face shows the colour of its first sticker.
is_solved(s) == \A f \in Faces : \A i \in Cells : s[f][i] = s[f][0]

\* RubikCube._rotate_face_clockwise: new[0..8] = old[6,3,0,7,4,1,8,5,2].
RotSrc == <<6, 3, 0, 7, 4, 1, 8, 5, 2>>

rotate_face_clockwise(row) == [i \in Cells |-> row[RotSrc[i + 1]]]

\* row[dst] = from[src] for the three listed indices (a numpy slice or
\* fancy-index assignment); every other cell keeps its value.
Put(row, dst, from, src) ==
  [i \in Cells |-> IF i = dst[1] THEN from[src[1]]
                   ELSE IF i = dst[2] THEN from[src[2]]
                   ELSE IF i = dst[3] THEN from[src[3]]
                   ELSE row[i]]

move_U(s) ==
  [s EXCEPT ![FU] = rotate_face_clockwise(s[FU]),
            ![FF] = Put(s[FF], <<0,1,2>>, s[FR], <<0,1,2>>),
            ![FR] = Put(s[FR], <<0,1,2>>, s[FB], <<0,1,2>>),
            ![FB] = Put(s[FB], <<0,1,2>>, s[FL], <<0,1,2>>),
            ![FL] = Put(s[FL], <<0,1,2>>, s[FF], <<0,1,2>>)]

move_D(s) ==
  [s EXCEPT ![FD] = rotate_face_clockwise(s[FD]),
            ![FF] = Put(s[FF], <<6,7,8>>, s[FL], <<6,7,8>>),
            ![FL] = Put(s[FL], <<6,7,8>>, s[FB], <<6,7,8>>),
            ![FB] = Put(s[FB], <<6,7,8>>, s[FR], <<6,7,8>>),
            ![FR] = Put(s[FR], <<6,7,8>>, s[FF], <<6,7,8>>)]

move_F(s) ==
  [s EXCEPT ![FF] = rotate_face_clockwise(s[FF]),
            ![FU] = Put(s[FU], <<6,7,8>>, s[FL], <<8,5,2>>),
            ![FL] = Put(s[FL], <<8,5,2>>, s[FD], <<2,1,0>>),
            ![FD] = Put(s[FD], <<2,1,0>>, s[FR], <<0,3,6>>),
            ![FR] = Put(s[FR], <<0,3,6>>, s[FU], <<6,7,8>>)]

move_B(s) ==
  [s EXCEPT ![FB] = rotate_face_clockwise(s[FB]),
            ![FU] = Put(s[FU], <<0,1,2>>, s[FR], <<2,5,8>>),
            ![FR] = Put(s[FR], <<2,5,8>>, s[FD], <<8,7,6>>),
            ![FD] = Put(s[FD], <<8,7,6>>, s[FL], <<6,3,0>>),
            ![FL] = Put(s[FL], <<6,3,0>>, s[FU], <<0,1,2>>)]

move_L(s) ==
  [s EXCEPT ![FL] = rotate_face_clockwise(s[FL]),
            ![FU] = Put(s[FU], <<0,3,6>>, s[FB], <<8,5,2>>),
            ![FB] = Put(s[FB], <<8,5,2>>, s[FD], <<0,3,6>>),
            ![FD] = Put(s[FD], <<0,3,6>>, s[FF], <<0,3,6>>),
            ![FF] = Put(s[FF], <<0,3,6>>, s[FU], <<0,3,6>>)]

move_R(s) ==
  [s EXCEPT ![FR] = rotate_face_clockwise(s[FR]),
            ![FU] = Put(s[FU], <<2,5,8>>, s[FF], <<2,5,8>>),
            ![FF] = Put(s[FF], <<2,5,8>>, s[FD], <<2,5,8>>),
            ![FD] = Put(s[FD], <<2,5,8>>, s[FB], <<6,3,0>>),
            ![FB] = Put(s[FB], <<6,3,0>>, s[FU], <<2,5,8>>)]

\* The 18 move names, in the order of kociemba/moves.py ALL_MOVE_NAMES.
ALL_MOVE_NAMES ==
  <<"U", "U2", "U'", "D", "D2", "D'", "R", "R2", "R'",
    "L", "L2", "L'", "F", "F2", "F'", "B", "B2", "B'">>

MoveNames == {ALL_MOVE_NAMES[i] : i \in 1..Len(ALL_MOVE_NAMES)}

\* move[0] of the source: the face letter of a move name.
FaceOf(m) ==
  CASE m \in {"U", "U2", "U'"} -> "U"
    [] m \in {"D", "D2", "D'"} -> "D"
    [] m \in {"R", "R2", "R'"} -> "R"
    [] m \in {"L", "L2", "L'"} -> "L"
    [] m \in {"F", "F2", "F'"} -> "F"
    [] m \in {"B", "B2", "B'"} -> "B"

\* Number of clockwise quarter turns apply_move performs for a move name.
TurnsOf(m) ==
  IF m \in {"U", "D", "R", "L", "F", "B"} THEN 1
  ELSE IF m \in {"U2", "D2", "R2", "L2", "F2", "B2"} THEN 2
  ELSE 3

base_move(s, f) ==
  CASE f = "U" -> move_U(s)
    [] f = "D" -> move_D(s)
    [] f = "F" -> move_F(s)
    [] f = "B" -> move_B(s)
    [] f = "L" -> move_L(s)
    [] f = "R" -> move_R(s)

\* "for _ in range(n): move_func()" of RubikCube.apply_move.
RECURSIVE repeat_move(_, _, _)
repeat_move(s, f, n) ==
  IF n = 0 THEN s ELSE repeat_move(At(s, LAMBDA v : base_move(v, f)), f, n - 1)

\* RubikCube.apply_move: X is one turn, X2 two turns, X' three turns.
apply_move(s, m) == repeat_move(s, FaceOf(m), TurnsOf(m))

\* RubikCube.apply_moves: the moves of a list, left to right.
RECURSIVE apply_moves(_, _)
apply_moves(s, ms) ==
  IF ms = <<>> THEN s ELSE apply_moves(apply_move(s, Head(ms)), Tail(ms))

(***************************************************************************)
(* Cubie cube: src/kociemba/cubie.py                                       *)
(***************************************************************************)
Corners == 0..7
Edges == 0..11

\* CubieCube.__init__: identity permutations, zero orientations.
SolvedCubie ==
  [corner_perm   |-> [i \in Corners |-> i],
   corner_orient |-> [i \in Corners |-> 0],
   edge_perm     |-> [i \in Edges |-> i],
   edge_orient   |-> [i \in Edges |-> 0]]

\* A 0-based array written as a tuple.
Arr(t) == [i \in 0..(Len(t) - 1) |-> t[i + 1]]

\* CubieCube.multiply: result = self * other.
multiply(a, b) ==
  At(a, LAMBDA self : At(b, LAMBDA other :
    [corner_perm   |-> [i \in Corners |-> self.corner_perm[other.corner_perm[i]]],
     corner_orient |-> [i \in Corners |->
                          (self.corner_orient[other.corner_perm[i]]
                             + other.corner_orient[i]) % 3],
     edge_perm     |-> [i \in Edges |-> self.edge_perm[other.edge_perm[i]]],
     edge_orient   |-> [i \in Edges |->
                          (self.edge_orient[other.edge_perm[i]]
                             + other.edge_orient[i]) % 2]]))

create_move_U ==
  [corner_perm   |-> Arr(<<3, 0, 1, 2, 4, 5, 6, 7>>),
   corner_orient |-> Arr(<<0, 0, 0, 0, 0, 0, 0, 0>>),
   edge_perm     |-> Arr(<<3, 0, 1, 2, 4, 5, 6, 7, 8, 9, 10, 11>>),
   edge_orient   |-> Arr(<<0, 0, 0, 0, 0, 0, 0, 0, 0, 0, 0, 0>>)]

create_move_D ==
  [corner_perm   |-> Arr(<<0, 1, 2, 3, 5, 6, 7, 4>>),
   corner_orient |-> Arr(<<0, 0, 0, 0, 0, 0, 0, 0>>),
   edge_perm     |-> Arr(<<0, 1, 2, 3, 5, 6, 7, 4, 8, 9, 10, 11>>),
   edge_orient   |-> Arr(<<0, 0, 0, 0, 0, 0, 0, 0, 0, 0, 0, 0>>)]

create_move_R ==
  [corner_perm   |-> Arr(<<4, 1, 2, 0, 7, 5, 6, 3>>),
   corner_orient |-> Arr(<<2, 0, 0, 1, 1, 0, 0, 2>>),
   edge_perm     |-> Arr(<<8, 1, 2, 3, 11, 5, 6, 7, 4, 9, 10, 0>>),
   edge_orient   |-> Arr(<<0, 0, 0, 0, 0, 0, 0, 0, 0, 0, 0, 0>>)]

create_move_L ==
  [corner_perm   |-> Arr(<<0, 2, 6, 3, 4, 1, 5, 7>>),
   corner_orient |-> Arr(<<0, 1, 2, 0, 0, 2, 1, 0>>),
   edge_perm     |-> Arr(<<0, 1, 10, 3, 4, 5, 9, 7, 8, 2, 6, 11>>),
   edge_orient   |-> Arr(<<0, 0, 0, 0, 0, 0, 0, 0, 0, 0, 0, 0>>)]

create_move_F ==
  [corner_perm   |-> Arr(<<1, 5, 2, 3, 0, 4, 6, 7>>),
   corner_orient |-> Arr(<<1, 2, 0, 0, 2, 1, 0, 0>>),
   edge_perm     |-> Arr(<<0, 9, 2, 3, 4, 8, 6, 7, 1, 5, 10, 11>>),
   edge_orient   |-> Arr(<<0, 1, 0, 0, 0, 1, 0, 0, 1, 1, 0, 0>>)]

\* B with the twist of the corner in slot 7 left out.
create_move_B_untwisted ==
  [corner_perm   |-> Arr(<<0, 1, 3, 7, 4, 5, 2, 6>>),
   corner_orient |-> Arr(<<0, 0, 1, 2, 0, 0, 2, 0>>),
   edge_perm     |-> Arr(<<0, 1, 2, 11, 4, 5, 6, 10, 8, 9, 3, 7>>),
   edge_orient   |-> Arr(<<0, 0, 0, 1, 0, 0, 0, 1, 0, 0, 1, 1>>)]

create_move_B ==
  [corner_perm   |-> Arr(<<0, 1, 3, 7, 4, 5, 2, 6>>),
   corner_orient |-> Arr(<<0, 0, 1, 2, 0, 0, 2, 1>>),
   edge_perm     |-> Arr(<<0, 1, 2, 11, 4, 5, 6, 10, 8, 9, 3, 7>>),
   edge_orient   |-> Arr(<<0, 0, 0, 1, 0, 0, 0, 1, 0, 0, 1, 1>>)]

MOVE_CUBES(f) ==
  CASE f = "U" -> create_move_U
    [] f = "D" -> create_move_D
    [] f = "R" -> create_move_R
    [] f = "L" -> create_move_L
    [] f = "F" -> create_move_F
    [] f = "B" -> create_move_B

\* X' as two turns instead of three.
move_power_short(b, n) ==
  IF n = 1 THEN b ELSE multiply(b, b)

\* The powers with X and X' the wrong way round.
move_power_reversed(b, n) ==
  IF n = 3 THEN b
  ELSE IF n = 2 THEN multiply(b, b)
  ELSE multiply(multiply(b, b), b)

\* b, b*b or b*b*b
move_power(b, n) ==
  IF n = 1 THEN b
  ELSE IF n = 2 THEN multiply(b, b)
  ELSE multiply(multiply(b, b), b)

\* cubie.ALL_MOVES: X2 = X*X and X' = X*X*X.
ALL_MOVES(m) == move_power(MOVE_CUBES(FaceOf(m)), TurnsOf(m))

apply_move_to_cubie(c, m) == multiply(c, ALL_MOVES(m))

\* The facelets of the corner positions URF, UFL, ULB, UBR, DFR, DLF, DBL,
\* DRB, and of the edge positions UR, UF, UL, UB, DR, DF, DL, DB, FR, FL,
\* BL, BR, each as <<face, index>>.
corner_facelets ==
  Arr(<< <<<<FU, 8>>, <<FR, 0>>, <<FF, 2>>>>,
         <<<<FU, 6>>, <<FF, 0>>, <<FL, 2>>>>,
         <<<<FU, 0>>, <<FL, 0>>, <<FB, 2>>>>,
         <<<<FU, 2>>, <<FB, 0>>, <<FR, 2>>>>,
         <<<<FD, 2>>, <<FF, 8>>, <<FR, 6>>>>,
         <<<<FD, 0>>, <<FL, 8>>, <<FF, 6>>>>,
         <<<<FD, 6>>, <<FB, 8>>, <<FL, 6>>>>,
         <<<<FD, 8>>, <<FR, 8>>, <<FB, 6>>>> >>)

edge_facelets ==
  Arr(<< <<<<FU, 5>>, <<FR, 1>>>>, <<<<FU, 7>>, <<FF, 1>>>>,
         <<<<FU, 3>>, <<FL, 1>>>>, <<<<FU, 1>>, <<FB, 1>>>>,
         <<<<FD, 5>>, <<FR, 7>>>>, <<<<FD, 1>>, <<FF, 7>>>>,
         <<<<FD, 3>>, <<FL, 7>>>>, <<<<FD, 7>>, <<FB, 7>>>>,
         <<<<FF, 5>>, <<FR, 3>>>>, <<<<FF, 3>>, <<FL, 5>>>>,
         <<<<FB, 5>>, <<FL, 3>>>>, <<<<FB, 3>>, <<FR, 5>>>> >>)

SetMin(members) == At(members, LAMBDA S : CHOOSE x \in S : \A y \in S : x <= y)

\* Colours seen at a piece position, in the order of its facelets.
ColorsAt(s, fl) == [k \in 1..Len(fl) |-> s[fl[k][1]][fl[k][2]]]

\* Does corner position pos hold corner c turned by rot?
CornerFits(s, pos, c, rot) ==
  \A k \in 0..2 :
    ColorsAt(s, corner_facelets[pos])[((k + rot) % 3) + 1] = corner_facelets[c][k + 1][1]

\* Does edge position pos hold edge e with flip o?
EdgeFits(s, pos, e, o) ==
  \A k \in 1..2 :
    ColorsAt(s, edge_facelets[pos])[k] = edge_facelets[e][IF o = 0 THEN k ELSE 3 - k][1]

\* from_facelet_cube raises ValueError when some position matches no piece.
FaceletsValid(s) ==
  /\ \A pos \in Corners : \E c \in Corners, rot \in 0..2 : CornerFits(s, pos, c, rot)
  /\ \A pos \in Edges : \E e \in Edges, o \in 0..1 : EdgeFits(s, pos, e, o)

\* The loops over corner_idx and rot (edge_idx and flip) stop at the first
\* match: the match with the least 3 * corner_idx + rot (2 * edge_idx + flip).
first_corner_match(s, pos) ==
  SetMin({3 * x[1] + x[2] :
            x \in {y \in Corners \X (0..2) : CornerFits(s, pos, y[1], y[2])}})

first_edge_match(s, pos) ==
  SetMin({2 * x[1] + x[2] :
            x \in {y \in Edges \X (0..1) : EdgeFits(s, pos, y[1], y[2])}})

from_facelet_cube(s) ==
  At([pos \in Corners |-> first_corner_match(s, pos)], LAMBDA cm :
    At([pos \in Edges |-> first_edge_match(s, pos)], LAMBDA em :
      [corner_perm   |-> [pos \in Corners |-> cm[pos] \div 3],
       corner_orient |-> [pos \in Corners |-> cm[pos] % 3],
       edge_perm     |-> [pos \in Edges |-> em[pos] \div 2],
       edge_orient   |-> [pos \in Edges |-> em[pos] % 2]]))

(***************************************************************************)
(* Coordinates of the two-phase solver: src/kociemba/coord.py              *)
(***************************************************************************)
factorial(n) ==
  LET F[i \in 0..n] == IF i <= 1 THEN 1 ELSE i * F[i - 1]
  IN  IF n <= 1 THEN 1 ELSE F[n]

\* binomial(): B[i] is result after i rounds of
\* result = result * (n - i) // (i + 1).
binomial(n, k) ==
  IF k > n \/ k < 0 THEN 0
  ELSE IF k = 0 \/ k = n THEN 1
  ELSE LET kk == IF k < n - k THEN k ELSE n - k
           B[i \in 0..kk] == IF i = 0 THEN 1 ELSE (B[i - 1] * (n - (i - 1))) \div i
       IN  B[kk]

\* permutation_to_rank: R[i] is rank after i rounds of
\* rank = rank * (n - i) + #{j > i : perm[i] > perm[j]}.
permutation_to_rank(p, n) ==
  At(p, LAMBDA perm :
    LET R[i \in 0..n] ==
          IF i = 0 THEN 0
          ELSE R[i - 1] * (n - (i - 1))
                 + Cardinality({j \in i..(n - 1) : perm[i - 1] > perm[j]})
    IN  R[n])

\* list.pop(idx) on a tuple (idx counted from 0).
Pop(t, idx) == [k \in 1..(Len(t) - 1) |-> IF k <= idx THEN t[k] ELSE t[k + 1]]

\* rank_to_permutation: S[i] is (rank, perm, result) after i rounds.
rank_to_permutation(rank, n) ==
  LET S[i \in 0..n] ==
        IF i = 0 THEN [rank |-> rank, perm |-> [k \in 1..n |-> k - 1], result |-> <<>>]
        ELSE At(S[i - 1], LAMBDA p :
               At(factorial(n - 1 - (i - 1)), LAMBDA fact :
                 At(p.rank \div fact, LAMBDA idx :
                   [rank   |-> p.rank % fact,
                    perm   |-> Pop(p.perm, idx),
                    result |-> Append(p.result, p.perm[idx + 1])])))
  IN  At(S[n].result, LAMBDA result : Arr(result))

\* combination_to_rank of kociemba/coord.py: the loop from position i down,
\* which breaks when count reaches 0.
RECURSIVE CombRankLoop(_, _, _)
CombRankLoop(positions, i, count) ==
  IF i < 0 THEN 0
  ELSE IF positions[i] = 1
       THEN binomial(i, count)
              + (IF count - 1 = 0 THEN 0 ELSE CombRankLoop(positions, i - 1, count - 1))
       ELSE CombRankLoop(positions, i - 1, count)

combination_to_rank(positions, n, k) == CombRankLoop(positions, n - 1, k)

\* rank_to_combination: the positions the loop from i down marks.
RECURSIVE RankCombLoop(_, _, _)
RankCombLoop(rank, i, count) ==
  IF i < 0 THEN {}
  ELSE IF rank >= binomial(i, count)
       THEN {i} \cup (IF count - 1 = 0 THEN {}
                      ELSE RankCombLoop(rank - binomial(i, count), i - 1, count - 1))
       ELSE RankCombLoop(rank, i - 1, count)

rank_to_combination(rank, n, k) ==
  At(RankCombLoop(rank, n - 1, k),
     LAMBDA chosen : [i \in 0..(n - 1) |-> IF i \in chosen THEN 1 ELSE 0])

Pow(b, e) ==
  LET P[i \in 0..e] == IF i = 0 THEN 1 ELSE b * P[i - 1]
  IN  P[e]

\* f[0] + ... + f[last]
SumTo(f, last) ==
  LET S[i \in 0..(last + 1)] == IF i = 0 THEN 0 ELSE S[i - 1] + f[i - 1]
  IN  S[last + 1]

\* coord = coord * base + digits[i] for i = 0..last.
Horner(digits, base, last) ==
  LET H[i \in 0..(last + 1)] == IF i = 0 THEN 0 ELSE H[i - 1] * base + digits[i - 1]
  IN  H[last + 1]

get_corner_orientation(cubie) == Horner(cubie.corner_orient, 3, 6)

set_corner_orientation(cubie, coord) ==
  LET o == [i \in 0..6 |-> (coord \div Pow(3, 6 - i)) % 3]
      total == SumTo(o, 6)
  IN  [cubie EXCEPT !.corner_orient =
         [i \in Corners |-> IF i < 7 THEN o[i] ELSE (3 - (total % 3)) % 3]]

get_edge_orientation(cubie) == Horner(cubie.edge_orient, 2, 10)

set_edge_orientation(cubie, coord) ==
  LET o == [i \in 0..10 |-> (coord \div Pow(2, 10 - i)) % 2]
      total == SumTo(o, 10)
  IN  [cubie EXCEPT !.edge_orient =
         [i \in Edges |-> IF i < 11 THEN o[i] ELSE total % 2]]

\* get_udslice without the reversal that gives the solved state 0.
get_udslice_unreversed(cubie) ==
  At([i \in Edges |-> IF 8 <= cubie.edge_perm[i] /\ cubie.edge_perm[i] <= 11
                      THEN 1 ELSE 0],
     LAMBDA positions : combination_to_rank(positions, 12, 4))

get_udslice(cubie) ==
  At([i \in Edges |-> IF 8 <= cubie.edge_perm[i] /\ cubie.edge_perm[i] <= 11
                      THEN 1 ELSE 0],
     LAMBDA positions : 494 - combination_to_rank(positions, 12, 4))

\* The loop of set_udslice: slice edges 8, 9, ... at the marked positions in
\* order, the other edges 0, 1, ... (at most 8) at the unmarked ones.
fill_udslice(cubie, positions) ==
  [cubie EXCEPT !.edge_perm =
     [i \in Edges |->
        IF positions[i] = 1 THEN 8 + Cardinality({j \in 0..(i - 1) : positions[j] = 1})
        ELSE IF Cardinality({j \in 0..(i - 1) : positions[j] = 0}) >= 8 THEN 8
        ELSE Cardinality({j \in 0..(i - 1) : positions[j] = 0})]]

set_udslice(cubie, coord) ==
  At(rank_to_combination(494 - coord, 12, 4), LAMBDA positions : fill_udslice(cubie, positions))

get_corner_permutation(cubie) == permutation_to_rank(cubie.corner_perm, 8)

set_corner_permutation(cubie, coord) ==
  [cubie EXCEPT !.corner_perm = rank_to_permutation(coord, 8)]

get_edge_permutation(cubie) ==
  permutation_to_rank([i \in 0..7 |-> cubie.edge_perm[i]], 8)

set_edge_permutation(cubie, coord) ==
  At(rank_to_permutation(coord, 8), LAMBDA perm :
    [cubie EXCEPT !.edge_perm = [i \in Edges |-> IF i < 8 THEN perm[i] ELSE cubie.edge_perm[i]]])

get_udslice_permutation(cubie) ==
  permutation_to_rank([i \in 0..3 |-> cubie.edge_perm[8 + i] - 8], 4)

set_udslice_permutation(cubie, coord) ==
  At(rank_to_permutation(coord, 4), LAMBDA perm :
    [cubie EXCEPT !.edge_perm =
       [i \in Edges |-> IF i >= 8 THEN perm[i - 8] + 8 ELSE cubie.edge_perm[i]]])

\* CoordCube.is_phase1_solved
is_phase1_solved(cubie) ==
  /\ get_corner_orientation(cubie) = 0
  /\ get_edge_orientation(cubie) = 0
  /\ get_udslice(cubie) = 0

(***************************************************************************)
(* Move tables: src/kociemba/moves.py.  An entry table[coord, move] is     *)
(* what _generate_coord_table stores: the coordinate is set on a solved    *)
(* cubie, the move is applied, the coordinate is read back.                *)
(***************************************************************************)
PHASE2_MOVES == <<"U", "U2", "U'", "D", "D2", "D'", "R2", "L2", "F2", "B2">>

corner_orient_moves(coord, m) ==
  At(set_corner_orientation(SolvedCubie, coord),
     LAMBDA cubie : At(apply_move_to_cubie(cubie, m), LAMBDA moved : get_corner_orientation(moved)))

edge_orient_moves(coord, m) ==
  At(set_edge_orientation(SolvedCubie, coord),
     LAMBDA cubie : At(apply_move_to_cubie(cubie, m), LAMBDA moved : get_edge_orientation(moved)))

udslice_moves(coord, m) ==
  At(set_udslice(SolvedCubie, coord),
     LAMBDA cubie : At(apply_move_to_cubie(cubie, m), LAMBDA moved : get_udslice(moved)))

corner_perm_moves(coord, m) ==
  At(set_corner_permutation(SolvedCubie, coord),
     LAMBDA cubie : At(apply_move_to_cubie(cubie, m), LAMBDA moved : get_corner_permutation(moved)))

edge_perm_moves(coord, m) ==
  At(set_edge_permutation(SolvedCubie, coord),
     LAMBDA cubie : At(apply_move_to_cubie(cubie, m), LAMBDA moved : get_edge_permutation(moved)))

udslice_perm_moves(coord, m) ==
  At(set_udslice_permutation(SolvedCubie, coord),
     LAMBDA cubie : At(apply_move_to_cubie(cubie, m), LAMBDA moved : get_udslice_permutation(moved)))

\* The UD-slice coordinate left as it was.
apply_move_to_coords_stale_slice(c, m) ==
  <<corner_orient_moves(c[1], m), edge_orient_moves(c[2], m), c[3]>>

\* MoveTables.apply_move_to_coords on <<co, eo, us>>.
apply_move_to_coords(c, m) ==
  <<corner_orient_moves(c[1], m), edge_orient_moves(c[2], m), udslice_moves(c[3], m)>>

\* MoveTables.apply_move_to_phase2_coords on <<cp, ep, sp>>.
apply_move_to_phase2_coords(c, m) ==
  <<corner_perm_moves(c[1], m), edge_perm_moves(c[2], m), udslice_perm_moves(c[3], m)>>

(***************************************************************************)
(* Pruning tables: src/kociemba/pruning.py.  The breadth-first generation  *)
(* is kept as its layers: layer d holds the entries that get the value d;  *)
(* entries of depth max_depth are not expanded and every entry never       *)
(* reached is filled with max_depth.                                       *)
(***************************************************************************)
\* The max_depth handed to PruningTables.load, scaled down from the 15 of
\* KociembaSolver._initialize.
PruneMaxDepth == 2

SeqToSet(t) == {t[i] : i \in 1..Len(t)}

PruneSucc(kind, x) ==
  CASE kind = "co_eo" ->
         {<<corner_orient_moves(x[1], m), edge_orient_moves(x[2], m)>> : m \in MoveNames}
    [] kind = "eo_slice" ->
         {<<edge_orient_moves(x[1], m), udslice_moves(x[2], m)>> : m \in MoveNames}
    [] kind = "corner_perm" -> {corner_perm_moves(x, m) : m \in SeqToSet(PHASE2_MOVES)}
    [] kind = "edge_perm" -> {edge_perm_moves(x, m) : m \in SeqToSet(PHASE2_MOVES)}
    [] kind = "slice_perm" -> {udslice_perm_moves(x, m) : m \in SeqToSet(PHASE2_MOVES)}

\* The next layer of the breadth-first generation: the entries found from
\* the frontier that were not seen before.
BfsLayer(seen, found) == [frontier |-> found \ seen, seen |-> seen \cup found]

BfsExpand(kind, p) == BfsLayer(p.seen, UNION {PruneSucc(kind, x) : x \in p.frontier})

\* The frontier and the entries seen at depth d of the generation.
RECURSIVE BfsAt(_, _, _)
BfsAt(kind, goal, d) ==
  IF d = 0 THEN [frontier |-> {goal}, seen |-> {goal}]
  ELSE BfsExpand(kind, BfsAt(kind, goal, d - 1))

\* The layers 0 .. max_depth of the generation from the goal entry.
BfsLayers(kind, goal, max_depth) ==
  [d \in 1..(max_depth + 1) |-> BfsAt(kind, goal, d - 1).frontier]

generate_phase1_co_eo(max_depth) == BfsLayers("co_eo", <<0, 0>>, max_depth)

generate_phase1_eo_slice(max_depth) ==
  BfsLayers("eo_slice", <<0, 0>>, max_depth)

generate_phase2_coord(coord_name, max_depth) == BfsLayers(coord_name, 0, max_depth)

\* The tables the solver holds after PruningTables.load(max_depth).
phase1_co_eo == generate_phase1_co_eo(PruneMaxDepth)
phase1_eo_slice == generate_phase1_eo_slice(PruneMaxDepth)
phase2_cp == generate_phase2_coord("corner_perm", PruneMaxDepth)
phase2_ep == generate_phase2_coord("edge_perm", PruneMaxDepth)
phase2_sp == generate_phase2_coord("slice_perm", PruneMaxDepth)

\* Every entry one deeper than the layer that holds it.
TableAtDeeper(layers, x) ==
  IF \E d \in 1..Len(layers) : x \in layers[d]
  THEN CHOOSE d \in 1..Len(layers) : x \in layers[d]
  ELSE Len(layers) - 1

\* table[x]: the depth of the layer holding x, else the fill value.
TableAt(layers, x) ==
  IF \E d \in 1..Len(layers) : x \in layers[d]
  THEN (CHOOSE d \in 1..Len(layers) : x \in layers[d]) - 1
  ELSE Len(layers) - 1

Max2(a, b) == IF a >= b THEN a ELSE b

get_phase1_heuristic(c) ==
  Max2(TableAt(phase1_co_eo, <<c[1], c[2]>>), TableAt(phase1_eo_slice, <<c[2], c[3]>>))

get_phase2_heuristic(c) ==
  Max2(TableAt(phase2_cp, c[1]), Max2(TableAt(phase2_ep, c[2]), TableAt(phase2_sp, c[3])))

(***************************************************************************)
(* State of one call of a solver entry point.                              *)
(***************************************************************************)
VARIABLES
  solver,          \* the entry point that was called
  cube,            \* its argument: the facelet cube to solve
  params,          \* its other arguments and the solver's settings
  now,             \* time.time(), in clock ticks
  pc,              \* control point of the call
  kcall,           \* arguments of the running KociembaSolver.solve
  loc,             \* local variables of KociembaSolver.solve
  srch,            \* the running search: its arguments and its call stack
  nodes_explored,  \* node counter of the searching object
  result,          \* what the entry point returned
  tloc,            \* local variables of ThistlethwaiteSolver.solve
  ida,             \* the running IDAStarSearch / IDAStarSolver search
  astar            \* open set, closed set and counters of AStarSolver.solve

vars == <<solver, cube, params, now, pc, kcall, loc, srch, nodes_explored, result,
          tloc, ida, astar>>

\* Length of the longest scramble that produces an input cube.
MaxScramble == 2

\* The moves the input scrambles are made of.
ScrambleGens == {"U", "R'", "F", "D2"}

SeqsUpTo(S, n) ==
  LET Q[k \in 0..n] ==
        IF k = 0 THEN {<<>>}
        ELSE LET shorter == Q[k - 1]
             IN  shorter \cup {Append(q, x) : q \in shorter, x \in S}
  IN  Q[n]

\* RubikCube() followed by apply_moves(scramble): the cubes handed to solve.
InputCubes == {apply_moves(SolvedCube, q) : q \in SeqsUpTo(ScrambleGens, MaxScramble)}

\* What a call has produced: nothing yet, None, a value, or an exception
\* that left the entry point.
Running == [kind |-> "running", value |-> <<>>]
ReturnNone == [kind |-> "None", value |-> <<>>]
Return(v) == [kind |-> "value", value |-> v]
Raise(e) == [kind |-> "raise", value |-> e]

NoSearch == [phase |-> 0, start_time |-> 0, timeout |-> 0, depth |-> 0, stack |-> <<>>]
NoCall == [cube |-> SolvedCube, max_phase1_depth |-> 0, max_phase2_depth |-> 0,
           timeout |-> 0, timeout_grace |-> 0]
NoLoc == [cubie |-> SolvedCubie, start_time |-> 0, phase1_solution |-> <<>>]
NoTLoc == [current_cube |-> SolvedCube, phase |-> 0, all_moves |-> <<>>,
           phase_solutions |-> <<>>, total_start_time |-> 0, fallback |-> Running]
NoIda == [ctx |-> <<>>, start_time |-> 0, timeout |-> 0, max_depth |-> 0, bound |-> 0,
          stack |-> <<>>]
NoAStar == [open_set |-> <<>>, closed_set |-> {}, nodes_generated |-> 0,
            max_open_size |-> 0, max_closed_size |-> 0, start_time |-> 0]

(***************************************************************************)
(* KociembaSolver: src/kociemba/solver.py.  One clock tick is 0.1 s, the   *)
(* least remaining_time solve hands to phase 2; a node visit takes a tick. *)
(***************************************************************************)
\* Largest max_phase1_depth / max_phase2_depth handed to solve (the
\* defaults 12 and 18, scaled).
MaxDepth == 3

\* The timeouts handed to solve, in ticks (the default 30 s, scaled), and
\* the default timeout_grace of KociembaSolver.__init__ (10 s, scaled).
ShortTimeout == 2
LongTimeout == 60
DefaultGrace == 2

KociembaParams ==
  [max_phase1_depth : {1, MaxDepth}, max_phase2_depth : {1, MaxDepth},
   timeout : {0, ShortTimeout, LongTimeout}, timeout_grace : {0, DefaultGrace}]

KociembaCall(c, p) ==
  [cube |-> c, max_phase1_depth |-> p.max_phase1_depth,
   max_phase2_depth |-> p.max_phase2_depth,
   timeout |-> p.timeout, timeout_grace |-> p.timeout_grace]

\* KociembaSolver._timed_out
timed_out(t, start_time, timeout) == (t - start_time) > (timeout + kcall.timeout_grace)

\* The "Prune redundant moves" test of _phase1_ida_search (phase 1) and of
\* _phase2_ida_search (phase 2).
KPruned(phase, last_move, move) ==
  IF last_move = "" THEN FALSE
  ELSE LET last_face == FaceOf(last_move)
       IN  \/ FaceOf(move) = last_face
           \/ last_face = "U" /\ FaceOf(move) = "D"
           \/ phase = 1 /\ last_face = "F" /\ FaceOf(move) = "B"
           \/ last_face = "L" /\ FaceOf(move) = "R"

KMoves(phase) == IF phase = 1 THEN ALL_MOVE_NAMES ELSE PHASE2_MOVES

KApply(phase, c, m) ==
  IF phase = 1 THEN apply_move_to_coords(c, m) ELSE apply_move_to_phase2_coords(c, m)

KHeuristic(phase, c) ==
  IF phase = 1 THEN get_phase1_heuristic(c) ELSE get_phase2_heuristic(c)

\* A stack frame is one call of _phase1_ida_search / _phase2_ida_search:
\* its coordinates, remaining depth and last move, and the index i of the
\* move its loop is at (0 before the loop).  The path argument of a call
\* is the list of last moves of the frames below it and its own.
KFrame(c, depth, last_move) == [c |-> c, depth |-> depth, last_move |-> last_move, i |-> 0]

\* The path without its last move.
KPathShort(stack) == [k \in 1..(Len(stack) - 2) |-> stack[k + 1].last_move]

KPath(stack) == [k \in 1..(Len(stack) - 1) |-> stack[k + 1].last_move]

\* Index of the next move of the loop that is not pruned, 0 when the loop ends.
KNextMove(phase, frame) ==
  LET ms == KMoves(phase)
      ok == {j \in (frame.i + 1)..Len(ms) : ~KPruned(phase, frame.last_move, ms[j])}
  IN  IF ok = {} THEN 0 ELSE SetMin(ok)

Front(st) == SubSeq(st, 1, Len(st) - 1)
Top(st) == st[Len(st)]

\* The loop of the top frame goes on: it calls the search on its next move,
\* or it returns None to its caller, whose loop goes on in turn.  The result
\* is the stack at the next call, or <<>> when the root call returned None.
RECURSIVE KResume(_, _)
KResume(phase, stack) ==
  IF stack = <<>> THEN <<>>
  ELSE LET f == Top(stack)
           j == KNextMove(phase, f)
       IN  IF j = 0 THEN KResume(phase, Front(stack))
           ELSE LET m == KMoves(phase)[j]
                IN  Append(Append(Front(stack), [f EXCEPT !.i = j]),
                           KFrame(KApply(phase, f.c, m), f.depth - 1, m))

\* One call of the search, from its entry to the next call or to its return:
\* "found" with the path, or "next" with the stack at the next call.
KVisit(phase, stack, t) ==
  IF ~timed_out(t, srch.start_time, srch.timeout) /\ Top(stack).c = <<0, 0, 0>>
    THEN [kind |-> "found", stack |-> <<>>, path |-> KPath(stack)]
  ELSE [kind |-> "next", path |-> <<>>,
        stack |-> KResume(phase,
                          IF \/ timed_out(t, srch.start_time, srch.timeout)
                             \/ Top(stack).depth = 0
                             \/ KHeuristic(phase, Top(stack).c) > Top(stack).depth
                          THEN Front(stack) ELSE stack)]

Phase1Coords(cubie) ==
  <<get_corner_orientation(cubie), get_edge_orientation(cubie), get_udslice(cubie)>>

Phase2Coords(cubie) ==
  <<get_corner_permutation(cubie), get_edge_permutation(cubie),
    get_udslice_permutation(cubie)>>

apply_moves_to_cubie(cubie, ms) ==
  LET A[i \in 0..Len(ms)] ==
        IF i = 0 THEN cubie ELSE apply_move_to_cubie(A[i - 1], ms[i])
  IN  A[Len(ms)]

\* The triple came out with the two phases the wrong way round.
solve_result_swapped(phase1_solution, phase2_solution) ==
  <<phase2_solution \o phase1_solution, phase1_solution, phase2_solution>>

\* solve, lines 164-187: solution = phase1_solution + phase2_solution, and
\* the triple returned.
solve_result(phase1_solution, phase2_solution) ==
  <<phase1_solution \o phase2_solution, phase1_solution, phase2_solution>>

\* A failure handed on as an empty list of moves.
solve_cube_result_empty(v) == IF v.kind = "None" THEN Return(<<>>) ELSE Return(v.value[1])

\* kociemba.solver.solve_cube: the solution of the triple, or None.
solve_cube_result(v) == IF v.kind = "None" THEN ReturnNone ELSE Return(v.value[1])

\* "while len(phase_solutions) < 3: phase_solutions.append([])"
pad_phase_solutions(ps) == [k \in 1..Max2(3, Len(ps)) |-> IF k <= Len(ps) THEN ps[k] ELSE <<>>]

\* The fallback's moves returned without the moves of the phases before it.
KReturnFallbackOnly(v) ==
  /\ pc' = "done"
  /\ IF solver = "KociembaSolver.solve"
       THEN result' = v /\ UNCHANGED tloc
     ELSE IF solver = "kociemba.solve_cube"
       THEN result' = solve_cube_result(v) /\ UNCHANGED tloc
     ELSE LET fallback == solve_cube_result(v)
          IN  IF fallback.kind = "None"
                THEN /\ tloc' = [tloc EXCEPT !.fallback = fallback]
                     /\ result' = ReturnNone
              ELSE /\ tloc' = [tloc EXCEPT
                                 !.current_cube = apply_moves(@, fallback.value),
                                 !.all_moves = fallback.value,
                                 !.phase_solutions =
                                   Append(pad_phase_solutions(@), fallback.value),
                                 !.fallback = fallback]
                   /\ result' = Return(<<tloc'.all_moves, tloc'.phase_solutions>>)

\* KociembaSolver.solve returns v to whoever called it: to the caller of the
\* entry point, to solve_cube, or through solve_cube to the fallback of
\* ThistlethwaiteSolver.solve (lines 138-150 and 189), which returns None
\* when the fallback did, and else appends the fallback to what it has.
KReturn(v) ==
  /\ pc' = "done"
  /\ IF solver = "KociembaSolver.solve"
       THEN result' = v /\ UNCHANGED tloc
     ELSE IF solver = "kociemba.solve_cube"
       THEN result' = solve_cube_result(v) /\ UNCHANGED tloc
     ELSE LET fallback == solve_cube_result(v)
          IN  IF fallback.kind = "None"
                THEN /\ tloc' = [tloc EXCEPT !.fallback = fallback]
                     /\ result' = ReturnNone
              ELSE /\ tloc' = [tloc EXCEPT
                                 !.current_cube = apply_moves(@, fallback.value),
                                 !.all_moves = @ \o fallback.value,
                                 !.phase_solutions =
                                   Append(pad_phase_solutions(@), fallback.value),
                                 !.fallback = fallback]
                   /\ result' = Return(<<tloc'.all_moves, tloc'.phase_solutions>>)

\* solve, lines 107-118: the already-solved test, the conversion.
KSolve ==
  /\ pc = "k_solve"
  /\ IF is_solved(kcall.cube)
       THEN KReturn(Return(<<<<>>, <<>>, <<>>>>)) /\ UNCHANGED loc
       ELSE /\ pc' = "k_phase1"
            /\ loc' = [cubie |-> from_facelet_cube(kcall.cube), start_time |-> now,
                       phase1_solution |-> <<>>]
            /\ UNCHANGED <<result, tloc>>
  /\ UNCHANGED <<solver, cube, params, now, kcall, srch, nodes_explored, ida, astar>>

\* _solve_phase1 up to its loop: "Already in G1" returns [].
KSolvePhase1 ==
  /\ pc = "k_phase1"
  /\ IF Phase1Coords(loc.cubie) = <<0, 0, 0>>
       THEN pc' = "k_verify" /\ UNCHANGED <<srch, nodes_explored>>
       ELSE /\ pc' = "k_phase1_loop"
            /\ srch' = [phase |-> 1, start_time |-> now, timeout |-> kcall.timeout,
                        depth |-> 0, stack |-> <<>>]
            /\ nodes_explored' = 0
  /\ UNCHANGED <<solver, cube, params, now, kcall, loc, result, tloc, ida, astar>>

\* Head of "for depth in range(max_depth + 1)" of _solve_phase1: the loop
\* ends or times out (solve returns None), or the search is called.
KPhase1Loop ==
  /\ pc = "k_phase1_loop"
  /\ IF srch.depth > kcall.max_phase1_depth \/ timed_out(now, srch.start_time, srch.timeout)
       THEN KReturn(ReturnNone) /\ UNCHANGED srch
       ELSE /\ pc' = "k_phase1_search"
            /\ srch' = [srch EXCEPT !.stack =
                          <<KFrame(Phase1Coords(loc.cubie), srch.depth, "")>>]
            /\ UNCHANGED <<result, tloc>>
  /\ UNCHANGED <<solver, cube, params, now, kcall, loc, nodes_explored, ida, astar>>

\* One call of _phase1_ida_search.
KPhase1Search ==
  /\ pc = "k_phase1_search"
  /\ now' = now + 1
  /\ nodes_explored' = nodes_explored + 1
  /\ \E v \in {KVisit(1, srch.stack, now + 1)} :
         IF v.kind = "found"
           THEN /\ pc' = "k_verify"
                /\ loc' = [loc EXCEPT !.phase1_solution = v.path]
                /\ srch' = [srch EXCEPT !.stack = <<>>]
         ELSE IF v.stack = <<>>
           THEN /\ pc' = "k_phase1_loop"
                /\ srch' = [srch EXCEPT !.stack = <<>>, !.depth = @ + 1]
                /\ UNCHANGED loc
         ELSE /\ srch' = [srch EXCEPT !.stack = v.stack]
              /\ UNCHANGED <<pc, loc>>
  /\ UNCHANGED <<solver, cube, params, kcall, result, tloc, ida, astar>>

\* solve, lines 135-157, and _solve_phase2 up to its loop: the phase-1
\* moves are applied, G1 is verified, phase 2 gets the remaining time.
KVerify ==
  /\ pc = "k_verify"
  /\ LET phase1_time == now - loc.start_time
         cubie == apply_moves_to_cubie(loc.cubie, loc.phase1_solution)
         remaining_time == Max2(1, kcall.timeout - phase1_time)
     IN  IF ~is_phase1_solved(cubie)
           THEN KReturn(ReturnNone) /\ UNCHANGED <<loc, srch>>
         ELSE IF Phase2Coords(cubie) = <<0, 0, 0>>
           THEN /\ KReturn(Return(solve_result(loc.phase1_solution, <<>>)))
                /\ loc' = [loc EXCEPT !.cubie = cubie]
                /\ UNCHANGED srch
         ELSE /\ pc' = "k_phase2_loop"
              /\ loc' = [loc EXCEPT !.cubie = cubie]
              /\ srch' = [phase |-> 2, start_time |-> now, timeout |-> remaining_time,
                          depth |-> 0, stack |-> <<>>]
              /\ UNCHANGED <<result, tloc>>
  /\ UNCHANGED <<solver, cube, params, now, kcall, nodes_explored, ida, astar>>

\* Head of "for depth in range(max_depth + 1)" of _solve_phase2.
KPhase2Loop ==
  /\ pc = "k_phase2_loop"
  /\ IF srch.depth > kcall.max_phase2_depth \/ timed_out(now, srch.start_time, srch.timeout)
       THEN KReturn(ReturnNone) /\ UNCHANGED srch
       ELSE /\ pc' = "k_phase2_search"
            /\ srch' = [srch EXCEPT !.stack =
                          <<KFrame(Phase2Coords(loc.cubie), srch.depth, "")>>]
            /\ UNCHANGED <<result, tloc>>
  /\ UNCHANGED <<solver, cube, params, now, kcall, loc, nodes_explored, ida, astar>>

\* One call of _phase2_ida_search; a path found completes the solution.
KPhase2Search ==
  /\ pc = "k_phase2_search"
  /\ now' = now + 1
  /\ nodes_explored' = nodes_explored + 1
  /\ \E v \in {KVisit(2, srch.stack, now + 1)} :
         IF v.kind = "found"
           THEN /\ KReturn(Return(solve_result(loc.phase1_solution, v.path)))
                /\ srch' = [srch EXCEPT !.stack = <<>>]
         ELSE IF v.stack = <<>>
           THEN /\ pc' = "k_phase2_loop"
                /\ srch' = [srch EXCEPT !.stack = <<>>, !.depth = @ + 1]
                /\ UNCHANGED <<result, tloc>>
         ELSE /\ srch' = [srch EXCEPT !.stack = v.stack]
              /\ UNCHANGED <<pc, result, tloc>>
  /\ UNCHANGED <<solver, cube, params, kcall, loc, ida, astar>>

NextKociemba ==
  \/ KSolve
  \/ KSolvePhase1
  \/ KPhase1Loop
  \/ KPhase1Search
  \/ KVerify
  \/ KPhase2Loop
  \/ KPhase2Search

\* A call of KociembaSolver.solve on a solver built with some
\* timeout_grace, or of solve_cube, which builds KociembaSolver().
InitKociemba ==
  /\ solver \in {"KociembaSolver.solve", "kociemba.solve_cube"}
  /\ cube \in InputCubes
  /\ params \in KociembaParams
  /\ solver = "kociemba.solve_cube" => params.timeout_grace = DefaultGrace
  /\ now = 0
  /\ pc = "k_solve"
  /\ kcall = KociembaCall(cube, params)
  /\ loc = NoLoc
  /\ srch = NoSearch
  /\ nodes_explored = 0
  /\ result = Running
  /\ tloc = NoTLoc
  /\ ida = NoIda
  /\ astar = NoAStar

SpecKociemba == InitKociemba /\ [][NextKociemba]_vars

(***************************************************************************)
(* Coordinates of the four-phase solver: src/thistlethwaite/coordinates.py *)
(***************************************************************************)
\* combination_to_rank(positions, n): positions lists the chosen positions
\* in increasing order; the inner loop runs j over start..pos-1.
t_combination_to_rank(chosen, n) ==
  At(chosen, LAMBDA positions :
    LET k == Len(positions)
        start(i) == IF i = 1 THEN 0 ELSE positions[i - 1] + 1
        inner(i) == SumTo([j \in 0..(n - 1) |->
                             IF start(i) <= j /\ j < positions[i]
                             THEN binomial(n - j - 1, k - (i - 1) - 1) ELSE 0], n - 1)
    IN  IF k = 0 THEN 0 ELSE SumTo([i \in 0..(k - 1) |-> inner(i + 1)], k - 1))

\* permutation_to_rank(perm) of coordinates.py: the outer loop is range(n - 1).
t_permutation_to_rank(p, n) ==
  At(p, LAMBDA perm :
    LET R[i \in 0..(n - 1)] ==
          IF i = 0 THEN 0
          ELSE R[i - 1] * (n - (i - 1))
                 + Cardinality({j \in i..(n - 1) : perm[i - 1] > perm[j]})
    IN  R[n - 1])

\* The facelets of the edge positions UF, UR, UB, UL, DF, DR, DB, DL, FR,
\* FL, BR, BL and of the corner positions UFL, UFR, UBR, UBL, DFL, DFR, DBR,
\* DBL, as listed in _extract_edges_from_facelets / _extract_corners_from_facelets.
t_edge_facelets ==
  Arr(<< <<<<FU, 7>>, <<FF, 1>>>>, <<<<FU, 5>>, <<FR, 1>>>>,
         <<<<FU, 1>>, <<FB, 1>>>>, <<<<FU, 3>>, <<FL, 1>>>>,
         <<<<FD, 1>>, <<FF, 7>>>>, <<<<FD, 5>>, <<FR, 7>>>>,
         <<<<FD, 7>>, <<FB, 7>>>>, <<<<FD, 3>>, <<FL, 7>>>>,
         <<<<FF, 5>>, <<FR, 3>>>>, <<<<FF, 3>>, <<FL, 5>>>>,
         <<<<FB, 3>>, <<FR, 5>>>>, <<<<FB, 5>>, <<FL, 3>>>> >>)

t_corner_facelets ==
  Arr(<< <<<<FU, 6>>, <<FF, 0>>, <<FL, 2>>>>,
         <<<<FU, 8>>, <<FF, 2>>, <<FR, 0>>>>,
         <<<<FU, 2>>, <<FB, 2>>, <<FR, 2>>>>,
         <<<<FU, 0>>, <<FB, 0>>, <<FL, 0>>>>,
         <<<<FD, 0>>, <<FF, 6>>, <<FL, 8>>>>,
         <<<<FD, 2>>, <<FF, 8>>, <<FR, 6>>>>,
         <<<<FD, 8>>, <<FB, 8>>, <<FR, 8>>>>,
         <<<<FD, 6>>, <<FB, 6>>, <<FL, 6>>>> >>)

SetMax(members) == At(members, LAMBDA S : CHOOSE x \in S : \A y \in S : x >= y)

\* The members of a set of numbers, in increasing order.
SortedSeq(members) ==
  At(members, LAMBDA S :
    [i \in 1..Cardinality(S) |-> CHOOSE x \in S : Cardinality({y \in S : y < x}) = i - 1])

\* The two tests of the inner loop of _extract_edges_from_facelets.
t_edge_match(s, pos, e, o) ==
  \A k \in 1..2 :
    ColorsAt(s, t_edge_facelets[pos])[k] = t_edge_facelets[e][IF o = 0 THEN k ELSE 3 - k][1]

\* rotated_colors = colors[rot:] + colors[:rot] equals ref_colors.
t_corner_match(s, pos, c, rot) ==
  \A k \in 0..2 :
    ColorsAt(s, t_corner_facelets[pos])[((k + rot) % 3) + 1] = t_corner_facelets[c][k + 1][1]

\* _extract_edges_from_facelets, per position: the first edge that matches,
\* either way round, is stored and the scan of that position stops.  The
\* result is 2 * edge_idx + orientation; a position that matches no edge
\* keeps the initial values.
extract_edges_from_facelets(s) ==
  [pos \in Edges |->
     At({2 * x[1] + x[2] : x \in {y \in Edges \X (0..1) : t_edge_match(s, pos, y[1], y[2])}},
        LAMBDA hits : IF hits = {} THEN 2 * pos ELSE SetMin(hits))]

\* _extract_corners_from_facelets, per position: the break leaves only the
\* rotation loop, so the last corner that matches stays, with its first
\* rotation.  The result is 3 * corner_idx + rot, -1 when nothing matches.
extract_corners_from_facelets(s) ==
  [pos \in Corners |->
     At({3 * x[1] + x[2] : x \in {y \in Corners \X (0..2) : t_corner_match(s, pos, y[1], y[2])}},
        LAMBDA hits :
          IF hits = {} THEN -1
          ELSE At(SetMax(hits) \div 3, LAMBDA last : SetMin({h \in hits : h \div 3 = last})))]

\* _extract_pieces.  The corner scan stores the corner it finds in
\* edge_permutation[pos] (line 226) and its rotation in
\* corner_orientation[pos]; corner_permutation keeps arange(8).
extract_pieces(em, cm) ==
  [edge_permutation |->
     [pos \in Edges |-> IF pos \in Corners /\ cm[pos] >= 0 THEN cm[pos] \div 3
                        ELSE em[pos] \div 2],
   edge_orientation |-> [pos \in Edges |-> em[pos] % 2],
   corner_permutation |-> [pos \in Corners |-> pos],
   corner_orientation |-> [pos \in Corners |-> IF cm[pos] >= 0 THEN cm[pos] % 3 ELSE 0]]

\* CubeCoordinates.__init__
CubeCoordinates(s) ==
  At(extract_edges_from_facelets(s), LAMBDA em :
    At(extract_corners_from_facelets(s), LAMBDA cm : extract_pieces(em, cm)))

get_edge_orientation_coord(cc) == Horner(cc.edge_orientation, 2, 10)

get_corner_orientation_coord(cc) == Horner(cc.corner_orientation, 3, 6)

\* get_e_slice_coord: the slice positions holding slice edges, counted from
\* 8; unless all four do, every position holding a slice edge.
get_e_slice_coord(cc) ==
  LET in_slice == {pos \in 8..11 : cc.edge_permutation[pos] \in 8..11}
      e_slice_positions ==
        IF Cardinality(in_slice) = 4 THEN SortedSeq({pos - 8 : pos \in in_slice})
        ELSE SortedSeq({i \in Edges : cc.edge_permutation[i] \in 8..11})
  IN  t_combination_to_rank(e_slice_positions, 12)

get_corner_tetrad_coord(cc) ==
  t_combination_to_rank(
    SortedSeq({i \in Corners : cc.corner_permutation[i] \in {0, 1, 4, 5}}), 8)

get_edge_slice_coord(cc) ==
  t_combination_to_rank(SortedSeq({i \in Edges : cc.edge_permutation[i] < 8}), 12)

get_corner_permutation_coord(cc) == t_permutation_to_rank(cc.corner_permutation, 8)

(***************************************************************************)
(* Phases of the four-phase solver: src/thistlethwaite/moves.py, the goal  *)
(* checks of solver.py and the pattern databases of tables.py.             *)
(***************************************************************************)
PHASE_0_MOVES ==
  <<"U", "U'", "U2", "D", "D'", "D2", "F", "F'", "F2",
    "B", "B'", "B2", "L", "L'", "L2", "R", "R'", "R2">>

\* The phase-1 list with the quarter turn F left in.
PHASE_1_MOVES_with_F ==
  <<"U", "U'", "U2", "D", "D'", "D2", "F", "F2", "B2", "L", "L'", "L2", "R", "R'", "R2">>

PHASE_1_MOVES ==
  <<"U", "U'", "U2", "D", "D'", "D2", "F2", "B2", "L", "L'", "L2", "R", "R'", "R2">>

\* The phase-2 list with the quarter turn L left in.
PHASE_2_MOVES_with_L == <<"U", "U'", "U2", "D", "D'", "D2", "F2", "B2", "L", "L2", "R2">>

PHASE_2_MOVES == <<"U", "U'", "U2", "D", "D'", "D2", "F2", "B2", "L2", "R2">>

PHASE_3_MOVES == <<"U2", "D2", "F2", "B2", "L2", "R2">>

\* ALL_PHASE_MOVES[phase], phase counted from 0.
ALL_PHASE_MOVES(phase) ==
  CASE phase = 0 -> PHASE_0_MOVES
    [] phase = 1 -> PHASE_1_MOVES
    [] phase = 2 -> PHASE_2_MOVES
    [] phase = 3 -> PHASE_3_MOVES

\* The phase-2 check reaches coords.has_even_parity(), a method that
\* CubeCoordinates does not have, when both of its coordinates are 0.
goal_check_raises(phase, s) ==
  /\ phase = 2
  /\ \E coords \in {CubeCoordinates(s)} :
       get_corner_tetrad_coord(coords) = 0 /\ get_edge_slice_coord(coords) = 0

\* _get_goal_check(phase)(cube), where it returns a value: the phase-2
\* check returns False as soon as one of its coordinates is not 0.
goal_check(phase, s) ==
  IF phase = 3 THEN is_solved(s)
  ELSE \E coords \in {CubeCoordinates(s)} :
         CASE phase = 0 -> get_edge_orientation_coord(coords) = 0
           [] phase = 1 -> /\ get_corner_orientation_coord(coords) = 0
                           /\ get_e_slice_coord(coords) = 0
           [] phase = 2 -> /\ get_corner_tetrad_coord(coords) = 0
                           /\ get_edge_slice_coord(coords) = 0

\* The coordinate each get_coord of tables.py reads from coords.
phase_coord(phase, coords) ==
  CASE phase = 0 -> get_edge_orientation_coord(coords)
    [] phase = 1 -> get_corner_orientation_coord(coords) * 495 + get_e_slice_coord(coords)
    [] phase = 2 -> get_corner_tetrad_coord(coords)
    [] phase = 3 -> get_corner_permutation_coord(coords)

\* get_coord of the pattern database of each phase (initialize_phase_0..3).
pdb_get_coord(phase, s) == At(CubeCoordinates(s), LAMBDA coords : phase_coord(phase, coords))

\* Depth to which a phase searches and to which its database is generated
\* (7, 10, 13 and 15 in the source, scaled).
MaxPhaseDepth == 2

phase_max_depths == <<MaxPhaseDepth, MaxPhaseDepth, MaxPhaseDepth, MaxPhaseDepth>>

\* "if coord not in visited" of PatternDatabase.generate: a cube whose
\* coordinate is new is queued and its coordinate gets the next depth.
pdb_visit(prev, next_cube, coord) ==
  IF coord \in prev.visited THEN prev
  ELSE [queue |-> Append(prev.queue, next_cube),
        visited |-> prev.visited \cup {coord},
        found |-> prev.found \cup {coord}]

pdb_try(phase, prev, next_cube) ==
  At(pdb_get_coord(phase, next_cube), LAMBDA coord : pdb_visit(prev, next_cube, coord))

\* "for move in self.moves" of PatternDatabase.generate for the cube c, from
\* its move number lo to its move number hi in list order: the first half
\* of these moves, then the rest.
RECURSIVE pdb_expand_cube(_, _, _, _, _)
pdb_expand_cube(phase, before, c, lo, hi) ==
  At(before, LAMBDA prev :
    IF lo > hi THEN prev
    ELSE IF lo = hi THEN pdb_try(phase, prev, apply_move(c, ALL_PHASE_MOVES(phase)[lo]))
    ELSE pdb_expand_cube(phase, pdb_expand_cube(phase, prev, c, lo, (lo + hi) \div 2),
                         c, ((lo + hi) \div 2) + 1, hi))

\* PatternDatabase.generate, one depth of its queue: the cubes lo..hi of
\* that depth in queue order, the first half of them, then the rest.
RECURSIVE pdb_expand_queue(_, _, _, _, _)
pdb_expand_queue(phase, before, queue, lo, hi) ==
  At(before, LAMBDA prev :
    IF lo > hi THEN prev
    ELSE IF lo = hi
      THEN pdb_expand_cube(phase, prev, queue[lo], 1, Len(ALL_PHASE_MOVES(phase)))
    ELSE pdb_expand_queue(phase, pdb_expand_queue(phase, prev, queue, lo, (lo + hi) \div 2),
                          queue, ((lo + hi) \div 2) + 1, hi))

pdb_expand(phase, queue, visited) ==
  pdb_expand_queue(phase, [queue |-> <<>>, visited |-> visited, found |-> {}],
                   queue, 1, Len(queue))

pdb_expand_layer(phase, p) == pdb_expand(phase, p.queue, p.visited)

\* The queue, the visited set and the coordinates found at depth d of
\* PatternDatabase.generate.
RECURSIVE pdb_at(_, _)
pdb_at(phase, d) ==
  IF d = 0 THEN [queue |-> <<SolvedCube>>, visited |-> {pdb_get_coord(phase, SolvedCube)},
                 found |-> {pdb_get_coord(phase, SolvedCube)}]
  ELSE pdb_expand_layer(phase, pdb_at(phase, d - 1))

\* PatternDatabase.generate(max_depth): the coordinates that get depth
\* 0, 1, .., max_depth, as a sequence of sets; cubes of depth max_depth
\* are not expanded.
pdb_generate(phase, max_depth) == [d \in 1..(max_depth + 1) |-> pdb_at(phase, d - 1).found]

\* ThistlethwaitePatternDatabases.load_all: self.databases, one database
\* per phase.
databases == [phase \in 0..3 |-> pdb_generate(phase, phase_max_depths[phase + 1])]

get_database(phase) == databases[phase]

\* table[coord], 0 for a coordinate that kept the fill value 255.
pdb_table_at(layers, coord) ==
  IF \E d \in 1..Len(layers) : coord \in layers[d]
  THEN (CHOOSE d \in 1..Len(layers) : coord \in layers[d]) - 1
  ELSE 0

\* PatternDatabase.lookup
pdb_lookup(phase, s) ==
  At(pdb_get_coord(phase, s), LAMBDA coord : pdb_table_at(get_database(phase), coord))

(***************************************************************************)
(* Heuristics of the single-phase solvers: src/korf/heuristics.py.  Their  *)
(* values are multiples of 1/8; f, h and bound are kept in eighths.        *)
(***************************************************************************)
Scale == 8

\* simple_heuristic: stickers other than the centre that differ from it, / 8.
simple_heuristic(s) ==
  IF is_solved(s) THEN 0
  ELSE Cardinality({<<f, i>> \in Faces \X Cells : i # 4 /\ s[f][i] # s[f][4]})

\* The count of hamming_distance: corners and edges out of place or turned.
misplaced_pieces(cubie) ==
  Cardinality({i \in Corners : cubie.corner_perm[i] # i \/ cubie.corner_orient[i] # 0})
  + Cardinality({i \in Edges : cubie.edge_perm[i] # i \/ cubie.edge_orient[i] # 0})

\* hamming_distance: misplaced pieces / 8.
hamming_distance(s) ==
  IF is_solved(s) THEN 0 ELSE At(from_facelet_cube(s), LAMBDA cubie : misplaced_pieces(cubie))

\* 4 * manhattan_distance_corner(cubie) and 4 * manhattan_distance_edge(cubie)
manhattan_distance_corner(cubie) ==
  Cardinality({i \in Corners : cubie.corner_perm[i] # i})
  + Cardinality({i \in Corners : cubie.corner_orient[i] # 0})

manhattan_distance_edge(cubie) ==
  Cardinality({i \in Edges : cubie.edge_perm[i] # i})
  + Cardinality({i \in Edges : cubie.edge_orient[i] # 0})

\* max(corner total / 4, edge total / 4)
manhattan_max(cubie) ==
  2 * Max2(manhattan_distance_corner(cubie), manhattan_distance_edge(cubie))

\* manhattan_distance
manhattan_distance(s) ==
  IF is_solved(s) THEN 0 ELSE At(from_facelet_cube(s), LAMBDA cubie : manhattan_max(cubie))

HeuristicNames == {"simple_heuristic", "hamming_distance", "manhattan_distance"}

(***************************************************************************)
(* IDA*: IDAStarSearch of src/thistlethwaite/ida_star.py and IDAStarSolver *)
(* of src/korf/a_star.py, whose recursive search is the same code.  ctx    *)
(* says whose search it is: <<"phase", k>> for the search of phase k of    *)
(* the four-phase solver, <<"korf", name>> for IDAStarSolver.              *)
(***************************************************************************)
\* float('inf')
INF == 1000000

\* The recursion looks at the clock when nodes_explored is a multiple of
\* this number (10000 in the source, scaled).
CheckEvery == 4

AStarSolver_ALL_MOVES == PHASE_0_MOVES

IMoves(ctx) == IF ctx[1] = "phase" THEN ALL_PHASE_MOVES(ctx[2]) ELSE AStarSolver_ALL_MOVES

IGoal(ctx, s) == IF ctx[1] = "phase" THEN goal_check(ctx[2], s) ELSE is_solved(s)

\* self.heuristic(cube), in eighths.
IHeuristic(ctx, s) ==
  IF ctx[1] = "phase" THEN Scale * pdb_lookup(ctx[2], s)
  ELSE CASE ctx[2] = "simple_heuristic" -> simple_heuristic(s)
         [] ctx[2] = "hamming_distance" -> hamming_distance(s)
         [] ctx[2] = "manhattan_distance" -> manhattan_distance(s)

\* _is_redundant_move
is_redundant_move(prev_move, current_move) ==
  LET prev_face == FaceOf(prev_move)
      curr_face == FaceOf(current_move)
  IN  \/ prev_face = curr_face
      \/ \E pair \in {<<"U", "D">>, <<"F", "B">>, <<"L", "R">>} :
           prev_face = pair[2] /\ curr_face = pair[1]

\* A stack frame is one call of the recursive search: its cube, its g, the
\* last move of its path ("" at the root), the index i of the move its loop
\* is at (0 before the loop) and its min_bound.
\* A frame whose min_bound starts at 0.
IFrameZeroMin(s, g, last_move) ==
  [s |-> s, g |-> g, last_move |-> last_move, i |-> 0, min_bound |-> 0]

IFrame(s, g, last_move) ==
  [s |-> s, g |-> g, last_move |-> last_move, i |-> 0, min_bound |-> INF]

\* The path without its last move.
IPathShort(stack) == [k \in 1..(Len(stack) - 2) |-> stack[k + 1].last_move]

\* The list path once every call on the stack has popped its move.
IPathPopped(stack) == [k \in 1..0 |-> stack[k + 1].last_move]

\* path + [move] down the recursion: the moves of the frames above the root.
IPath(stack) == [k \in 1..(Len(stack) - 1) |-> stack[k + 1].last_move]

\* Index of the next move of the loop that is not redundant, 0 at its end.
INextMove(ctx, frame) ==
  At(IMoves(ctx), LAMBDA ms :
    At({j \in (frame.i + 1)..Len(ms) :
          ~(frame.last_move # "" /\ is_redundant_move(frame.last_move, ms[j]))},
       LAMBDA ok : IF ok = {} THEN 0 ELSE SetMin(ok)))

\* IResume: the loop of the top frame goes on, to its next recursive call or
\* to "return min_bound".  IReturnTo: a call returns the number r to the
\* frame that called it, which keeps the smaller of r and its min_bound and
\* goes on; a return of the root call ends the iteration.
RECURSIVE IResume(_, _), IReturnTo(_, _, _)
IResume(ctx, st) ==
  At(st, LAMBDA stack : At(Top(stack), LAMBDA f : At(INextMove(ctx, f), LAMBDA j :
    IF j = 0 THEN IReturnTo(ctx, Front(stack), f.min_bound)
    ELSE At(IMoves(ctx)[j], LAMBDA m :
           [kind |-> "next", value |-> 0, path |-> <<>>,
            stack |-> Append(Append(Front(stack), [f EXCEPT !.i = j]),
                             IFrame(apply_move(f.s, m), f.g + 1, m))]))))

IReturnTo(ctx, st, ret) ==
  At(st, LAMBDA stack : At(ret, LAMBDA r :
    IF stack = <<>> THEN [kind |-> "root", value |-> r, path |-> <<>>, stack |-> <<>>]
    ELSE At(Top(stack), LAMBDA f :
           IResume(ctx, Append(Front(stack),
                               [f EXCEPT !.min_bound = IF r < @ THEN r ELSE @])))))

\* The body of _search_recursive / _search for the frame f, whose cube has
\* the heuristic value h.
search_node(sr, t, n, f, h) ==
  IF (n % CheckEvery = 0 /\ t - sr.start_time > sr.timeout) \/ f.g * Scale + h > sr.bound
    THEN IReturnTo(sr.ctx, Front(sr.stack),
                   IF n % CheckEvery = 0 /\ t - sr.start_time > sr.timeout THEN INF
                   ELSE f.g * Scale + h)
  ELSE IF sr.ctx[1] = "phase" /\ goal_check_raises(sr.ctx[2], f.s)
    THEN [kind |-> "raise", value |-> 0, path |-> <<>>, stack |-> <<>>]
  ELSE IF IGoal(sr.ctx, f.s)
    THEN [kind |-> "found", value |-> 0, path |-> IPath(sr.stack), stack |-> <<>>]
  ELSE IResume(sr.ctx, sr.stack)

\* One call of _search_recursive / _search, entered at time t as node
\* number n of the search sr: from its entry to the next recursive call
\* ("next"), to the return of a path ("found"), to the return of the root
\* call with a number ("root") or to an exception of the goal check ("raise").
IVisit(sr, t, n) ==
  At(Top(sr.stack), LAMBDA f :
    At(IHeuristic(sr.ctx, f.s), LAMBDA h : search_node(sr, t, n, f, h)))

(***************************************************************************)
(* ThistlethwaiteSolver: src/thistlethwaite/solver.py                      *)
(***************************************************************************)
\* self.phase_timeouts, in ticks (10, 30, 60, 120 s and 2, 5, 8, 12 s).
phase_timeouts(use_pattern_databases) ==
  IF use_pattern_databases THEN <<10, 30, 60, 120>> ELSE <<2, 5, 8, 12>>

\* The max_time values handed to solve, in ticks; <<>> is None.
ShortMaxTime == 3
LongMaxTime == 40

ThistleParams ==
  [use_pattern_databases : BOOLEAN, max_time : {<<>>, <<ShortMaxTime>>, <<LongMaxTime>>}]

Min2(a, b) == IF a <= b THEN a ELSE b

\* _fallback_with_kociemba: solve_cube(cube.copy()) with its default depths
\* and timeout, on a KociembaSolver() with the default timeout_grace.
TFallback ==
  /\ pc' = "k_solve"
  /\ kcall' = [cube |-> tloc.current_cube, max_phase1_depth |-> MaxDepth,
               max_phase2_depth |-> MaxDepth, timeout |-> LongTimeout,
               timeout_grace |-> DefaultGrace]

\* solve, lines 93-106: the already-solved test, the locals.
TSolve ==
  /\ pc = "t_solve"
  /\ IF is_solved(cube)
       THEN /\ pc' = "done"
            /\ result' = Return(<<<<>>, <<<<>>, <<>>, <<>>, <<>>>>>>)
            /\ UNCHANGED tloc
       ELSE /\ pc' = "t_phase"
            /\ tloc' = [current_cube |-> cube, phase |-> 0, all_moves |-> <<>>,
                        phase_solutions |-> <<>>, total_start_time |-> now,
                        fallback |-> Running]
            /\ UNCHANGED result
  /\ UNCHANGED <<solver, cube, params, now, kcall, loc, srch, nodes_explored, ida, astar>>

\* Head of "for phase in range(4)" and _solve_phase up to the loop of
\* IDAStarSearch.search: after the last phase solve returns its moves;
\* max_time spent returns None; a cube in the goal of the phase gets no
\* moves; without pattern databases the heuristic calls a method that
\* CubeCoordinates does not have.
TPhase ==
  /\ pc = "t_phase"
  /\ LET phase == tloc.phase
         elapsed_time == now - tloc.total_start_time
         phase_timeout ==
           IF params.max_time = <<>>
           THEN phase_timeouts(params.use_pattern_databases)[phase + 1]
           ELSE Min2(phase_timeouts(params.use_pattern_databases)[phase + 1],
                     params.max_time[1] - elapsed_time)
     IN  IF phase = 4
           THEN /\ pc' = "done"
                /\ result' = Return(<<tloc.all_moves, tloc.phase_solutions>>)
                /\ UNCHANGED <<tloc, ida, nodes_explored>>
         ELSE IF params.max_time # <<>> /\ elapsed_time >= params.max_time[1]
           THEN /\ pc' = "done"
                /\ result' = ReturnNone
                /\ UNCHANGED <<tloc, ida, nodes_explored>>
         ELSE IF goal_check_raises(phase, tloc.current_cube)
           THEN /\ pc' = "done"
                /\ result' = Raise("AttributeError")
                /\ UNCHANGED <<tloc, ida, nodes_explored>>
         ELSE IF goal_check(phase, tloc.current_cube)
           THEN /\ tloc' = [tloc EXCEPT !.phase = @ + 1,
                                        !.phase_solutions = Append(@, <<>>)]
                /\ UNCHANGED <<pc, result, ida, nodes_explored>>
         ELSE IF ~params.use_pattern_databases
           THEN /\ pc' = "done"
                /\ result' = Raise("AttributeError")
                /\ ida' = [NoIda EXCEPT !.ctx = <<"phase", phase>>, !.start_time = now,
                                        !.timeout = phase_timeout,
                                        !.max_depth = phase_max_depths[phase + 1]]
                /\ nodes_explored' = 0
                /\ UNCHANGED tloc
         ELSE /\ pc' = "t_search_loop"
              /\ ida' = [ctx |-> <<"phase", phase>>, start_time |-> now,
                         timeout |-> phase_timeout,
                         max_depth |-> phase_max_depths[phase + 1],
                         bound |-> IHeuristic(<<"phase", phase>>, tloc.current_cube),
                         stack |-> <<>>]
              /\ nodes_explored' = 0
              /\ UNCHANGED <<tloc, result>>
  /\ UNCHANGED <<solver, cube, params, now, kcall, loc, srch, astar>>

\* Head of "while bound <= self.max_depth" of IDAStarSearch.search: past
\* the depth or past the timeout the search returns None and solve calls
\* the fallback; else the recursion starts from the cube of the phase.
TSearchLoop ==
  /\ pc = "t_search_loop"
  /\ IF ida.bound > Scale * ida.max_depth \/ now - ida.start_time > ida.timeout
       THEN TFallback /\ UNCHANGED ida
       ELSE /\ pc' = "t_search"
            /\ ida' = [ida EXCEPT !.stack = <<IFrame(tloc.current_cube, 0, "")>>]
            /\ UNCHANGED kcall
  /\ UNCHANGED <<solver, cube, params, now, loc, srch, nodes_explored, result, tloc, astar>>

\* One call of IDAStarSearch._search_recursive.  A path found is the
\* phase's moves: solve applies and records them and goes to the next
\* phase.  A root call that returns inf makes the search return None.
TSearch ==
  /\ pc = "t_search"
  /\ now' = now + 1
  /\ nodes_explored' = nodes_explored + 1
  /\ \E v \in {IVisit(ida, now + 1, nodes_explored + 1)} :
         IF v.kind = "found"
           THEN /\ pc' = "t_phase"
                /\ tloc' = [tloc EXCEPT !.current_cube = apply_moves(@, v.path),
                                        !.all_moves = @ \o v.path,
                                        !.phase_solutions = Append(@, v.path),
                                        !.phase = @ + 1]
                /\ ida' = [ida EXCEPT !.stack = <<>>]
                /\ UNCHANGED <<kcall, result>>
         ELSE IF v.kind = "raise"
           THEN /\ pc' = "done"
                /\ result' = Raise("AttributeError")
                /\ UNCHANGED <<tloc, ida, kcall>>
         ELSE IF v.kind = "root" /\ v.value = INF
           THEN /\ TFallback
                /\ ida' = [ida EXCEPT !.stack = <<>>]
                /\ UNCHANGED <<tloc, result>>
         ELSE IF v.kind = "root"
           THEN /\ pc' = "t_search_loop"
                /\ ida' = [ida EXCEPT !.stack = <<>>, !.bound = v.value]
                /\ UNCHANGED <<tloc, kcall, result>>
         ELSE /\ ida' = [ida EXCEPT !.stack = v.stack]
              /\ UNCHANGED <<pc, tloc, kcall, result>>
  /\ UNCHANGED <<solver, cube, params, loc, srch, astar>>

\* The four-phase solver and the two-phase solver it falls back on.
NextThistle ==
  \/ TSolve
  \/ TPhase
  \/ TSearchLoop
  \/ TSearch
  \/ KSolve
  \/ KSolvePhase1
  \/ KPhase1Loop
  \/ KPhase1Search
  \/ KVerify
  \/ KPhase2Loop
  \/ KPhase2Search

InitThistle ==
  /\ solver = "ThistlethwaiteSolver.solve"
  /\ cube \in InputCubes
  /\ params \in ThistleParams
  /\ now = 0
  /\ pc = "t_solve"
  /\ kcall = NoCall
  /\ loc = NoLoc
  /\ srch = NoSearch
  /\ nodes_explored = 0
  /\ result = Running
  /\ tloc = NoTLoc
  /\ ida = NoIda
  /\ astar = NoAStar

SpecThistle == InitThistle /\ [][NextThistle]_vars

(***************************************************************************)
(* IDAStarSolver: src/korf/a_star.py.  One clock tick is one call of       *)
(* _search.                                                                *)
(***************************************************************************)
\* "approximate: 100 states per MB" of AStarSolver.solve.
StatesPerMB == 100

\* The memory_limit_mb values handed to AStarSolver (the default is 2048).
SmallMemory == 1
DefaultMemory == 2048

KorfParams ==
  [heuristic : HeuristicNames, max_depth : {1, MaxDepth},
   timeout : {ShortTimeout, LongTimeout}, memory_limit_mb : {SmallMemory, DefaultMemory}]

\* solve, lines 322-331: the counters, the already-solved test, the bound.
ISolve ==
  /\ pc = "i_solve"
  /\ nodes_explored' = 0
  /\ IF is_solved(cube)
       THEN /\ pc' = "done"
            /\ result' = Return(<<>>)
            /\ ida' = [NoIda EXCEPT !.start_time = now]
       ELSE /\ pc' = "i_loop"
            /\ ida' = [ctx |-> <<"korf", params.heuristic>>, start_time |-> now,
                       timeout |-> params.timeout, max_depth |-> params.max_depth,
                       bound |-> IHeuristic(<<"korf", params.heuristic>>, cube),
                       stack |-> <<>>]
            /\ UNCHANGED result
  /\ UNCHANGED <<solver, cube, params, now, kcall, loc, srch, tloc, astar>>

\* The loop head without its two exits: past the depth or past the timeout
\* it spins.
ILoopNoExit ==
  /\ pc = "i_loop"
  /\ IF ida.bound > Scale * ida.max_depth \/ now - ida.start_time > ida.timeout
       THEN UNCHANGED <<pc, result, ida>>
       ELSE /\ pc' = "i_search"
            /\ ida' = [ida EXCEPT !.stack = <<IFrame(cube, 0, "")>>]
            /\ UNCHANGED result
  /\ UNCHANGED <<solver, cube, params, now, kcall, loc, srch, nodes_explored, tloc, astar>>

\* Head of "while bound <= self.max_depth": past the depth or past the
\* timeout solve returns None; else _search is called on the cube.
ILoop ==
  /\ pc = "i_loop"
  /\ IF ida.bound > Scale * ida.max_depth \/ now - ida.start_time > ida.timeout
       THEN /\ pc' = "done"
            /\ result' = ReturnNone
            /\ UNCHANGED ida
       ELSE /\ pc' = "i_search"
            /\ ida' = [ida EXCEPT !.stack = <<IFrame(cube, 0, "")>>]
            /\ UNCHANGED result
  /\ UNCHANGED <<solver, cube, params, now, kcall, loc, srch, nodes_explored, tloc, astar>>

\* One call of IDAStarSolver._search.  A path is the solution; a root call
\* that returns inf makes solve return None; any other number is the next
\* bound.
ISearch ==
  /\ pc = "i_search"
  /\ now' = now + 1
  /\ nodes_explored' = nodes_explored + 1
  /\ \E v \in {IVisit(ida, now + 1, nodes_explored + 1)} :
         IF v.kind = "found"
           THEN /\ pc' = "done"
                /\ result' = Return(v.path)
                /\ ida' = [ida EXCEPT !.stack = <<>>]
         ELSE IF v.kind = "root" /\ v.value = INF
           THEN /\ pc' = "done"
                /\ result' = ReturnNone
                /\ ida' = [ida EXCEPT !.stack = <<>>]
         ELSE IF v.kind = "root"
           THEN /\ pc' = "i_loop"
                /\ ida' = [ida EXCEPT !.stack = <<>>, !.bound = v.value]
                /\ UNCHANGED result
         ELSE /\ ida' = [ida EXCEPT !.stack = v.stack]
              /\ UNCHANGED <<pc, result>>
  /\ UNCHANGED <<solver, cube, params, kcall, loc, srch, tloc, astar>>

(***************************************************************************)
(* AStarSolver: src/korf/a_star.py.  The open set is the list heapq keeps  *)
(* as a binary heap; SearchNode orders nodes by f_value alone.  One clock  *)
(* tick is one round of the loop of solve.                                 *)
(***************************************************************************)
\* SearchNode(f_value = g + h, ...), f and h in eighths.
SearchNode(g, h, cube_state, move_sequence) ==
  [f_value |-> g * Scale + h, g_value |-> g, h_value |-> h,
   cube_state |-> cube_state, move_sequence |-> move_sequence]

\* heapq._siftdown(heap, startpos, pos) for the item newitem taken from
\* heap[pos]: parents greater than newitem move down.
RECURSIVE siftdown(_, _, _, _)
siftdown(h, startpos, pos, newitem) ==
  At(h, LAMBDA heap :
    IF pos > startpos /\ newitem.f_value < heap[((pos - 1) \div 2) + 1].f_value
    THEN siftdown([heap EXCEPT ![pos + 1] = heap[((pos - 1) \div 2) + 1]],
                  startpos, (pos - 1) \div 2, newitem)
    ELSE [heap EXCEPT ![pos + 1] = newitem])

\* heapq.heappush
heappush(h, node) ==
  At(h, LAMBDA heap : At(node, LAMBDA item : siftdown(Append(heap, item), 0, Len(heap), item)))

\* The child heapq._siftup moves up from below pos: the right one when it
\* exists and the left one is not smaller.
smaller_child(heap, pos) ==
  IF 2 * pos + 2 < Len(heap)
     /\ ~(heap[2 * pos + 2].f_value < heap[2 * pos + 3].f_value)
  THEN 2 * pos + 2 ELSE 2 * pos + 1

\* heapq._siftup(heap, pos) for the item newitem taken from heap[pos]: the
\* smaller child moves up until a leaf is reached, then newitem is sifted
\* down from there.
RECURSIVE siftup(_, _, _, _)
siftup(h, startpos, pos, newitem) ==
  At(h, LAMBDA heap :
    IF 2 * pos + 1 < Len(heap)
    THEN At(smaller_child(heap, pos), LAMBDA childpos :
           siftup([heap EXCEPT ![pos + 1] = heap[childpos + 1]], startpos, childpos, newitem))
    ELSE siftdown([heap EXCEPT ![pos + 1] = newitem], startpos, pos, newitem))

\* heapq.heappop: the list after the pop (the item returned is heap[0]).
heappop(h) ==
  At(h, LAMBDA heap :
    IF Len(heap) = 1 THEN <<>>
    ELSE At(heap[Len(heap)], LAMBDA lastelt :
           siftup([Front(heap) EXCEPT ![1] = lastelt], 0, 0, lastelt)))

\* Lines 187-213 for a move that is not redundant and leads to the cube
\* successor_cube: a successor in the closed set is skipped, any other is
\* pushed with f = g + 1 + h.
push_successor(open_set, closed_set, current, move, next_cube) ==
  At(next_cube, LAMBDA successor_cube :
    IF successor_cube \in closed_set THEN open_set
    ELSE heappush(open_set,
                  SearchNode(current.g_value + 1,
                             IHeuristic(<<"korf", params.heuristic>>, successor_cube),
                             successor_cube, Append(current.move_sequence, move))))

\* One round of "for move in self.ALL_MOVES".
try_move(open_set, closed_set, current, move) ==
  IF current.move_sequence # <<>>
     /\ is_redundant_move(current.move_sequence[Len(current.move_sequence)], move)
  THEN open_set
  ELSE push_successor(open_set, closed_set, current, move,
                      apply_move(current.cube_state, move))

\* The loop "for move in self.ALL_MOVES" from its move number lo to its
\* move number hi: the first half of these moves, then the rest.
RECURSIVE generate_successors(_, _, _, _, _)
generate_successors(heap, closed_set, current, lo, hi) ==
  At(heap, LAMBDA open_set :
    IF lo > hi THEN open_set
    ELSE IF lo = hi THEN try_move(open_set, closed_set, current, AStarSolver_ALL_MOVES[lo])
    ELSE generate_successors(
           generate_successors(open_set, closed_set, current, lo, (lo + hi) \div 2),
           closed_set, current, ((lo + hi) \div 2) + 1, hi))

\* solve, lines 112-137: the counters, the already-solved test, the open set
\* with the start node, the empty closed set.
ASolve ==
  /\ pc = "a_solve"
  /\ nodes_explored' = 0
  /\ IF is_solved(cube)
       THEN /\ pc' = "done"
            /\ result' = Return(<<>>)
            /\ astar' = [NoAStar EXCEPT !.start_time = now]
       ELSE /\ pc' = "a_loop"
            /\ astar' = [NoAStar EXCEPT
                           !.start_time = now,
                           !.open_set =
                             <<SearchNode(0, IHeuristic(<<"korf", params.heuristic>>, cube),
                                          cube, <<>>)>>]
            /\ UNCHANGED result
  /\ UNCHANGED <<solver, cube, params, now, kcall, loc, srch, tloc, ida>>

\* The part of a round after the pop of current from the heap, which left
\* open_set: lines 154-213.
AExpand(current, open_set) ==
  /\ nodes_explored' = nodes_explored + 1
  /\ IF current.cube_state \in astar.closed_set
       THEN /\ astar' = [astar EXCEPT
                           !.open_set = open_set,
                           !.max_open_size = Max2(@, Len(open_set)),
                           !.max_closed_size = Max2(@, Cardinality(astar.closed_set))]
            /\ UNCHANGED <<pc, result>>
     ELSE IF is_solved(current.cube_state)
       THEN /\ astar' = [astar EXCEPT
                           !.open_set = open_set,
                           !.closed_set = @ \cup {current.cube_state},
                           !.max_open_size = Max2(@, Len(open_set)),
                           !.max_closed_size = Max2(@, Cardinality(astar.closed_set))]
            /\ pc' = "done"
            /\ result' = Return(current.move_sequence)
     ELSE IF current.g_value >= params.max_depth
       THEN /\ astar' = [astar EXCEPT
                           !.open_set = open_set,
                           !.closed_set = @ \cup {current.cube_state},
                           !.max_open_size = Max2(@, Len(open_set)),
                           !.max_closed_size = Max2(@, Cardinality(astar.closed_set))]
            /\ UNCHANGED <<pc, result>>
     ELSE \E pushed \in {At(astar.closed_set \cup {current.cube_state}, LAMBDA closed_set :
                             generate_successors(open_set, closed_set, current,
                                                 1, Len(AStarSolver_ALL_MOVES)))} :
            /\ astar' = [astar EXCEPT
                           !.open_set = pushed,
                           !.closed_set = @ \cup {current.cube_state},
                           !.nodes_generated = @ + Len(pushed) - Len(open_set),
                           !.max_open_size = Max2(@, Len(open_set)),
                           !.max_closed_size = Max2(@, Cardinality(astar.closed_set))]
            /\ UNCHANGED <<pc, result>>

\* One round of "while open_set": an empty open set, the timeout or the
\* memory limit makes solve return None; else the node with the least
\* f_value is popped and expanded.
ALoop ==
  /\ pc = "a_loop"
  /\ IF \/ astar.open_set = <<>>
        \/ now - astar.start_time > params.timeout
        \/ Len(astar.open_set) + Cardinality(astar.closed_set)
             > params.memory_limit_mb * StatesPerMB
       THEN /\ pc' = "done"
            /\ result' = ReturnNone
            /\ UNCHANGED <<now, nodes_explored, astar>>
       ELSE /\ now' = now + 1
            /\ \E current \in {astar.open_set[1]}, popped \in {heappop(astar.open_set)} :
                 AExpand(current, popped)
  /\ UNCHANGED <<solver, cube, params, kcall, loc, srch, tloc, ida>>

\* The two solvers of src/korf/a_star.py.
NextKorf ==
  \/ ISolve
  \/ ILoop
  \/ ISearch
  \/ ASolve
  \/ ALoop

InitKorf ==
  /\ \/ /\ solver = "IDAStarSolver.solve"
        /\ pc = "i_solve"
        /\ params \in {q \in KorfParams : q.memory_limit_mb = DefaultMemory}
     \/ /\ solver = "AStarSolver.solve"
        /\ pc = "a_solve"
        /\ params \in KorfParams
  /\ cube \in InputCubes
  /\ now = 0
  /\ kcall = NoCall
  /\ loc = NoLoc
  /\ srch = NoSearch
  /\ nodes_explored = 0
  /\ result = Running
  /\ tloc = NoTLoc
  /\ ida = NoIda
  /\ astar = NoAStar

SpecKorf == InitKorf /\ [][NextKorf]_vars

(***************************************************************************)
(* All entry points: a behaviour is one call of one solver.                *)
(***************************************************************************)
Init == InitKociemba \/ InitThistle \/ InitKorf

Next ==
  \/ KSolve
  \/ KSolvePhase1
  \/ KPhase1Loop
  \/ KPhase1Search
  \/ KVerify
  \/ KPhase2Loop
  \/ KPhase2Search
  \/ TSolve
  \/ TPhase
  \/ TSearchLoop
  \/ TSearch
  \/ ISolve
  \/ ILoop
  \/ ISearch
  \/ ASolve
  \/ ALoop

Spec == Init /\ [][Next]_vars

\* Length of the longest scramble of the calls followed to their end.
MaxFairScramble == 1

InitFair == Init /\ cube \in {apply_moves(SolvedCube, q) : q \in SeqsUpTo(ScrambleGens, MaxFairScramble)}

\* A call runs on one thread that is never suspended for good: while a step
\* of the call is possible, one is taken.
FairSpec == InitFair /\ [][Next]_vars /\ WF_vars(Next)

(***************************************************************************)
(* Properties of the two-phase solver.                                     *)
(***************************************************************************)
KociembaEntry == solver \in {"KociembaSolver.solve", "kociemba.solve_cube"}

\* The move sequence a finished call of the two-phase solver returned.
KociembaSolution == IF solver = "KociembaSolver.solve" THEN result.value[1] ELSE result.value

\* C1: every move sequence that KociembaSolver.solve or solve_cube returns
\* takes the input cube to the solved cube.
C1_KociembaSolutionSolves ==
  (KociembaEntry /\ pc = "done" /\ result.kind = "value")
    => apply_moves(cube, KociembaSolution) = SolvedCube

\* A call returned a solution of two moves or more, with a move in each phase.
C1_Witness ==
  /\ solver = "KociembaSolver.solve" /\ pc = "done" /\ result.kind = "value"
  /\ result.value[2] # <<>> /\ result.value[3] # <<>>

\* C9: after the phase-1 moves of a result of KociembaSolver.solve the input
\* cube has corner orientation, edge orientation and UD-slice coordinate 0.
C9_Phase1ReachesG1 ==
  (solver = "KociembaSolver.solve" /\ pc = "done" /\ result.kind = "value")
    => is_phase1_solved(from_facelet_cube(apply_moves(cube, result.value[2])))

\* A result whose phase-1 moves are not empty, for a cube outside G1.
C9_Witness ==
  /\ solver = "KociembaSolver.solve" /\ pc = "done" /\ result.kind = "value"
  /\ result.value[2] # <<>>
  /\ ~is_phase1_solved(from_facelet_cube(cube))

\* The ten moves of phase 2.
Phase2MoveSet == {"U", "U2", "U'", "D", "D2", "D'", "R2", "L2", "F2", "B2"}

\* C10: in a result of KociembaSolver.solve the solution is the phase-1
\* moves followed by the phase-2 moves, and every phase-2 move is one of
\* the ten moves of phase 2.
C10_SolutionIsPhase1ThenPhase2 ==
  (solver = "KociembaSolver.solve" /\ pc = "done" /\ result.kind = "value")
    => /\ result.value[1] = result.value[2] \o result.value[3]
       /\ \A k \in 1..Len(result.value[3]) : result.value[3][k] \in Phase2MoveSet

\* A result with moves in both phases that differ.
C10_Witness ==
  /\ solver = "KociembaSolver.solve" /\ pc = "done" /\ result.kind = "value"
  /\ result.value[2] # <<>> /\ result.value[3] # <<>>
  /\ result.value[2] \o result.value[3] # result.value[3] \o result.value[2]

(***************************************************************************)
(* Properties of all entry points.                                         *)
(***************************************************************************)
\* The move sequence in the value a finished call returned.
ReturnedMoves ==
  IF solver \in {"KociembaSolver.solve", "ThistlethwaiteSolver.solve"}
  THEN result.value[1] ELSE result.value

\* C4: called on the solved cube, KociembaSolver.solve,
\* ThistlethwaiteSolver.solve, AStarSolver.solve and IDAStarSolver.solve
\* return the empty move sequence, not a failure.
C4_SolvedGivesEmpty ==
  (pc = "done" /\ cube = SolvedCube) => (result.kind = "value" /\ ReturnedMoves = <<>>)

\* The single-phase IDA* solver returned from a call on the solved cube.
C4_Witness ==
  pc = "done" /\ cube = SolvedCube /\ solver = "IDAStarSolver.solve"

(***************************************************************************)
(* Properties of the four-phase solver.                                    *)
(***************************************************************************)
ThistleReturned ==
  solver = "ThistlethwaiteSolver.solve" /\ pc = "done" /\ result.kind = "value"

\* C2: whenever ThistlethwaiteSolver.solve returns (all_moves,
\* phase_solutions), with all phases solved or with the remainder from the
\* fallback, all_moves applied to the input cube gives the solved cube.
C2_ThistleSolutionSolves ==
  ThistleReturned => apply_moves(cube, result.value[1]) = SolvedCube

\* A return after a phase found moves and the fallback added its own.
C2_Witness ==
  /\ ThistleReturned
  /\ tloc.fallback.kind = "value"
  /\ tloc.fallback.value # <<>>
  /\ \E k \in 1..3 : result.value[2][k] # <<>>

(***************************************************************************)
(* Properties of the single-phase solvers.                                 *)
(***************************************************************************)
\* Is there a solution of c of at most n of the 18 moves.
SolvableWithin(c, n) == \E q \in SeqsUpTo(MoveNames, n) : apply_moves(c, q) = SolvedCube

\* The least number of moves that solve an input cube.
OptimalLength(c) == SetMin({n \in 0..MaxScramble : SolvableWithin(c, n)})

\* The heuristics that never overestimate on the input cubes (in eighths).
AdmissibleHeuristics ==
  {h \in HeuristicNames :
     \A c \in InputCubes : IHeuristic(<<"korf", h>>, c) <= Scale * OptimalLength(c)}

\* C3: with an admissible heuristic, a solution IDAStarSolver.solve returns
\* is as short as any sequence of the 18 moves that solves the cube.
C3_IDAStarOptimal ==
  (/\ solver = "IDAStarSolver.solve" /\ pc = "done" /\ result.kind = "value"
   /\ params.heuristic \in AdmissibleHeuristics)
    => /\ apply_moves(cube, result.value) = SolvedCube
       /\ Len(result.value) = OptimalLength(cube)

\* An admissible heuristic exists and a two-move solution was returned with it.
C3_Witness ==
  /\ solver = "IDAStarSolver.solve" /\ pc = "done" /\ result.kind = "value"
  /\ params.heuristic \in AdmissibleHeuristics
  /\ Len(result.value) = 2

(***************************************************************************)
(* Failure, termination and deadlines.                                     *)
(***************************************************************************)
OrchestratorEntry ==
  solver \in {"KociembaSolver.solve", "kociemba.solve_cube", "ThistlethwaiteSolver.solve"}

\* The call ended without handing back moves that solve the cube, and
\* without an exception.
OrchestratorFailed ==
  /\ OrchestratorEntry /\ pc = "done" /\ result.kind # "raise"
  /\ ~(result.kind = "value" /\ apply_moves(cube, ReturnedMoves) = SolvedCube)

\* What each orchestrator returns for a solved cube.
SolvedResult ==
  IF solver = "KociembaSolver.solve" THEN Return(<<<<>>, <<>>, <<>>>>)
  ELSE IF solver = "kociemba.solve_cube" THEN Return(<<>>)
  ELSE Return(<<<<>>, <<<<>>, <<>>, <<>>, <<>>>>>>)

C7_NoSolutionAfterDeadline ==
  (/\ solver = "IDAStarSolver.solve" /\ pc = "done" /\ cube # SolvedCube
   /\ now - ida.start_time > ida.timeout)
    => result.kind # "value"

\* C8: when a phase search of ThistlethwaiteSolver.solve finds nothing the
\* fallback gets the cube, and solve reports a failure only if the fallback
\* failed too.
C8_FailureOnlyAfterFallback ==
  (solver = "ThistlethwaiteSolver.solve" /\ pc = "done" /\ result.kind # "value")
    => tloc.fallback.kind = "None"

(***************************************************************************)
(* The move sets of the four phases.                                       *)
(***************************************************************************)
\* The numbers of moves of the four phases.
PhaseMoveCounts == <<18, 14, 10, 6>>

\* The list of phase k has the stated number of distinct moves.
PhaseMovesCounted(k) ==
  /\ Len(ALL_PHASE_MOVES(k)) = PhaseMoveCounts[k + 1]
  /\ Cardinality(SeqToSet(ALL_PHASE_MOVES(k))) = PhaseMoveCounts[k + 1]

\* The entries of phase_solutions that phase searches wrote: one per phase
\* passed; an entry the fallback appended comes after them.
PhasesPassed == Min2(tloc.phase, Len(tloc.phase_solutions))

\* C11: the move set of each phase 1..3 is a strict subset of the set of
\* the phase before (18, 14, 10 and 6 moves), and every move a phase search
\* put into phase_solutions is in the set of its phase.
C11_PhaseMovesNested ==
  /\ \A k \in 0..3 : PhaseMovesCounted(k)
  /\ \A k \in 1..3 :
       /\ SeqToSet(ALL_PHASE_MOVES(k)) \subseteq SeqToSet(ALL_PHASE_MOVES(k - 1))
       /\ SeqToSet(ALL_PHASE_MOVES(k)) # SeqToSet(ALL_PHASE_MOVES(k - 1))
  /\ solver = "ThistlethwaiteSolver.solve"
       => \A k \in 1..PhasesPassed :
            SeqToSet(tloc.phase_solutions[k]) \subseteq SeqToSet(ALL_PHASE_MOVES(k - 1))

\* The search of phase 1 has put moves into phase_solutions.
C11_Witness ==
  /\ solver = "ThistlethwaiteSolver.solve"
  /\ PhasesPassed >= 2
  /\ tloc.phase_solutions[2] # <<>>

(***************************************************************************)
(* The tables, the codecs and the cubie operations called on their own: a  *)
(* behaviour is one call of one function on one input.                     *)
(***************************************************************************)
\* The moves the G1 sample states are made of.
Phase2Gens == {"U", "D'", "R2", "F2"}

\* Cubie states a few moves from the solved one, and such states inside G1.
SampleCubies ==
  {apply_moves_to_cubie(SolvedCubie, q) : q \in SeqsUpTo(ScrambleGens, MaxScramble)}

SampleG1Cubies ==
  {apply_moves_to_cubie(SolvedCubie, q) : q \in SeqsUpTo(Phase2Gens, MaxScramble)}

\* The same with one more move: states beyond the depth of the tables.
DeepSampleCubies ==
  {apply_moves_to_cubie(SolvedCubie, q) : q \in SeqsUpTo(ScrambleGens, MaxScramble + 1)}

DeepSampleG1Cubies ==
  {apply_moves_to_cubie(SolvedCubie, q) : q \in SeqsUpTo(Phase2Gens, MaxScramble + 1)}

\* The call of the function f is about to be made on the input params (and
\* on the facelet cube, where f takes one).
LibCall(f, inputs, cubes) ==
  /\ solver = f
  /\ params \in inputs
  /\ cube \in cubes
  /\ now = 0
  /\ pc = "call"
  /\ kcall = NoCall
  /\ loc = NoLoc
  /\ srch = NoSearch
  /\ nodes_explored = 0
  /\ result = Running
  /\ tloc = NoTLoc
  /\ ida = NoIda
  /\ astar = NoAStar

\* The call of f is made and returns v.
LibReturn(f, v) ==
  /\ pc = "call"
  /\ solver = f
  /\ pc' = "done"
  /\ result' = Return(v)
  /\ UNCHANGED <<solver, cube, params, now, kcall, loc, srch, nodes_explored, tloc, ida,
                 astar>>

LibReturned(f) == solver = f /\ pc = "done"

\* get_phase1_heuristic / get_phase2_heuristic on the coordinates of the
\* cubie state params, PatternDatabase.lookup of phase params on cube.
Phase1Lookup ==
  LibReturn("PruningTables.get_phase1_heuristic", get_phase1_heuristic(Phase1Coords(params)))

Phase2Lookup ==
  LibReturn("PruningTables.get_phase2_heuristic", get_phase2_heuristic(Phase2Coords(params)))

PdbLookup == LibReturn("PatternDatabase.lookup", pdb_lookup(params, cube))

\* The entries of the two phase-1 tables and of the three phase-2 tables for
\* the coordinates of the cubie state params.
Phase1Entries ==
  LibReturn("PruningTables.phase1",
            <<TableAt(phase1_co_eo, <<get_corner_orientation(params), get_edge_orientation(params)>>),
              TableAt(phase1_eo_slice, <<get_edge_orientation(params), get_udslice(params)>>)>>)

Phase2Entries ==
  LibReturn("PruningTables.phase2",
            <<TableAt(phase2_cp, get_corner_permutation(params)),
              TableAt(phase2_ep, get_edge_permutation(params)),
              TableAt(phase2_sp, get_udslice_permutation(params))>>)

(***************************************************************************)
(* The nibble-packed PatternDatabase of src/korf/pattern_database.py and   *)
(* its generation by bfs_generate_pattern_database.  data is the byte      *)
(* array, two distances a byte.                                            *)
(***************************************************************************)
\* The largest value a nibble holds.
NibbleCap == 15

\* PatternDatabase.__init__: np.full((size + 1) // 2, 0xFF).
new_data(size) == [b \in 0..(((size + 1) \div 2) - 1) |-> 255]

\* _pack_distance
pack_distance(distance) == Min2(distance, NibbleCap)

\* A set_distance that stores the whole byte and so clears the other nibble.
set_distance_whole_byte(data, index, distance) ==
  IF index % 2 = 0
  THEN [data EXCEPT ![index \div 2] = pack_distance(distance)]
  ELSE [data EXCEPT ![index \div 2] = pack_distance(distance) * 16]

\* set_distance: the lower nibble for an even index, the upper for an odd one.
set_distance(data, index, distance) ==
  IF index % 2 = 0
  THEN [data EXCEPT ![index \div 2] = (@ \div 16) * 16 + pack_distance(distance)]
  ELSE [data EXCEPT ![index \div 2] = (@ % 16) + pack_distance(distance) * 16]

\* The nibbles of a byte read the wrong way round.
get_distance_swapped(data, index) ==
  IF index % 2 = 0 THEN (data[index \div 2] \div 16) % 16 ELSE data[index \div 2] % 16

\* get_distance with _unpack_distance
get_distance(data, index) ==
  IF index % 2 = 0 THEN data[index \div 2] % 16 ELSE (data[index \div 2] \div 16) % 16

\* The body of "for move in moves" for one move: a state index not visited
\* before gets depth + 1 and is queued.
bfs_try(st, new_state_idx, new_depth) ==
  IF new_state_idx \in st.visited THEN st
  ELSE [data |-> set_distance(st.data, new_state_idx, new_depth),
        queue |-> Append(st.queue, <<new_state_idx, new_depth>>),
        visited |-> st.visited \cup {new_state_idx}]

\* move_func of the generations modelled: the states are the points of a
\* ring of size points, a move is a number of steps round it.
ring_move(state_idx, move, size) == (state_idx + move) % size

RECURSIVE bfs_moves(_, _, _, _, _)
bfs_moves(before, head, moves, k, size) ==
  At(before, LAMBDA st :
    IF k > Len(moves) THEN st
    ELSE bfs_moves(bfs_try(st, ring_move(head[1], moves[k], size), head[2] + 1),
                   head, moves, k + 1, size))

\* "while queue": the head of the queue is taken and its moves are tried.
RECURSIVE bfs_loop(_, _, _)
bfs_loop(before, moves, size) ==
  At(before, LAMBDA st :
    IF st.queue = <<>> THEN st.data
    ELSE bfs_loop(bfs_moves([st EXCEPT !.queue = Tail(@)], st.queue[1], moves, 1, size),
                  moves, size))

\* bfs_generate_pattern_database on a new database: db.data afterwards.
bfs_generate_pattern_database(size, moves, solved_index) ==
  bfs_loop([data |-> set_distance(new_data(size), solved_index, 0),
            queue |-> <<<<solved_index, 0>>>>,
            visited |-> {solved_index}],
           moves, size)

\* The sizes of the rings, and the moves: one step either way.
RingSizes == {29, 32, 35}

RingInputs == {[size |-> n, moves |-> <<1, n - 1>>] : n \in RingSizes}

BfsGenerate ==
  LibReturn("bfs_generate_pattern_database",
            bfs_generate_pattern_database(params.size, params.moves, 0))

(***************************************************************************)
(* The six codecs of kociemba/coord.py: the coordinate params is set on a  *)
(* solved cubie and read back.                                             *)
(***************************************************************************)
CornerOrientationCodec ==
  LibReturn("coord.corner_orientation",
            get_corner_orientation(set_corner_orientation(SolvedCubie, params)))

EdgeOrientationCodec ==
  LibReturn("coord.edge_orientation",
            get_edge_orientation(set_edge_orientation(SolvedCubie, params)))

UdsliceCodec ==
  LibReturn("coord.udslice", get_udslice(set_udslice(SolvedCubie, params)))

CornerPermutationCodec ==
  LibReturn("coord.corner_permutation",
            get_corner_permutation(set_corner_permutation(SolvedCubie, params)))

EdgePermutationCodec ==
  LibReturn("coord.edge_permutation",
            get_edge_permutation(set_edge_permutation(SolvedCubie, params)))

UdslicePermutationCodec ==
  LibReturn("coord.udslice_permutation",
            get_udslice_permutation(set_udslice_permutation(SolvedCubie, params)))

(***************************************************************************)
(* The index of an EdgePatternDatabase of src/korf/edge_database.py over   *)
(* the edges edge_subset (a sorted tuple) and its inverse.                 *)
(***************************************************************************)
\* list.index counted from 0, and the k-th element (from 0) of a set of
\* numbers in increasing order.
ListIndex(t, e) == (CHOOSE j \in 1..Len(t) : t[j] = e) - 1

KthOf(S, k) == CHOOSE e \in S : Cardinality({x \in S : x < e}) = k

\* coord = coord * 2 + edge_orient[edge_idx] for edge_idx in edge_subset[:-1]
edge_orientation_to_coord(edge_orient, edge_subset) ==
  LET H[i \in 0..(Len(edge_subset) - 1)] ==
        IF i = 0 THEN 0 ELSE H[i - 1] * 2 + edge_orient[edge_subset[i]]
  IN  H[Len(edge_subset) - 1]

\* orient[i] for i = n_edges - 1 down to 1 are the bits of coord from the
\* lowest up, orient[0] is their sum modulo 2.
coord_to_edge_orientation(coord, n_edges) ==
  LET bit(i) == (coord \div Pow(2, n_edges - 1 - i)) % 2
      total == SumTo([i \in 0..(n_edges - 1) |-> IF i = 0 THEN 0 ELSE bit(i)], n_edges - 1)
  IN  [i \in 0..(n_edges - 1) |-> IF i = 0 THEN total % 2 ELSE bit(i)]

\* The places of the edges of the subset among the positions 0..11 that hold
\* one, in the order of the positions.
normalize_edge_permutation(edge_perm, edge_subset) ==
  LET held == {i \in Edges : edge_perm[i] \in SeqToSet(edge_subset)}
  IN  [k \in 0..(Cardinality(held) - 1) |-> ListIndex(edge_subset, edge_perm[KthOf(held, k)])]

edge_index(edge_subset, cubie) ==
  permutation_to_rank(normalize_edge_permutation(cubie.edge_perm, edge_subset), Len(edge_subset))
      * Pow(2, Len(edge_subset) - 1)
    + edge_orientation_to_coord(cubie.edge_orient, edge_subset)

index_to_edge_state(edge_subset, index) ==
  LET n_edges == Len(edge_subset)
      orient_size == Pow(2, n_edges - 1)
      inside == SeqToSet(edge_subset)
      other_edges == Edges \ inside
  IN  At(rank_to_permutation(index \div orient_size, n_edges), LAMBDA normalized_perm :
        At(coord_to_edge_orientation(index % orient_size, n_edges), LAMBDA orient :
          [SolvedCubie EXCEPT
             !.edge_perm =
               [i \in Edges |->
                  IF i \in inside
                  THEN edge_subset[normalized_perm[Cardinality({j \in inside : j < i})] + 1]
                  ELSE KthOf(other_edges, Cardinality({j \in other_edges : j < i}))],
             !.edge_orient =
               [i \in Edges |->
                  IF i \in inside THEN orient[ListIndex(edge_subset, i)]
                  ELSE SolvedCubie.edge_orient[i]]]))

EDGE_GROUP_1 == <<0, 1, 2, 3, 4, 5>>

EDGE_GROUP_2 == <<6, 7, 8, 9, 10, 11>>

\* The edge subsets of the databases whose indices are decoded and encoded:
\* the two standard groups and two small ones.
EdgeSubsets == {EDGE_GROUP_1, EDGE_GROUP_2, <<0, 5>>, <<2, 7, 9>>}

EdgeIndexInputs ==
  UNION {{[edge_subset |-> t, index |-> v] :
            v \in 0..(factorial(Len(t)) * Pow(2, Len(t) - 1) - 1)} : t \in EdgeSubsets}

EdgeIndexOfState ==
  LibReturn("EdgePatternDatabase.edge_index",
            edge_index(params.edge_subset,
                       index_to_edge_state(params.edge_subset, params.index)))

(***************************************************************************)
(* The move tables applied to the coordinates of the cubie state params.s. *)
(***************************************************************************)
MoveInputs(states, moves) == {[s |-> c, m |-> mv] : c \in states, mv \in moves}

TableMovePhase1 ==
  LibReturn("MoveTables.apply_move_to_coords",
            apply_move_to_coords(Phase1Coords(params.s), params.m))

TableMovePhase2 ==
  LibReturn("MoveTables.apply_move_to_phase2_coords",
            apply_move_to_phase2_coords(Phase2Coords(params.s), params.m))

\* The move params.m applied to the cubie state params.s.
ApplyMoveToCubie ==
  LibReturn("apply_move_to_cubie", apply_move_to_cubie(params.s, params.m))

(***************************************************************************)
(* The loaders of the cached tables.  A table is kept as its shape, a      *)
(* cache file as whether it exists and the shapes of the arrays pickled in *)
(* it; the result of a load is the tables the object holds afterwards and  *)
(* the cache file left behind.                                             *)
(***************************************************************************)
\* The shapes of the tables as _generate_tables makes them: the six move
\* tables, the five pruning tables.
MoveTableShapes ==
  <<<<2187, 18>>, <<2048, 18>>, <<495, 18>>, <<40320, 10>>, <<40320, 10>>, <<24, 10>>>>

PruningTableShapes == <<<<2187, 2048>>, <<2048, 495>>, <<40320>>, <<40320>>, <<24>>>>

\* The size handed to PatternDatabase by initialize_phase_0 .. _3.
PatternDatabaseSizes == <<2048, 2187 * 495, 70, 40320>>

NoFile == [exists |-> FALSE, data |-> <<>>]

\* MoveTables.load of a new object.
MoveTables_load(cache_file, force_regenerate) ==
  IF ~force_regenerate /\ cache_file.exists
  THEN [tables |-> cache_file.data, cache_file |-> cache_file]
  ELSE [tables |-> MoveTableShapes,
        cache_file |-> [exists |-> TRUE, data |-> MoveTableShapes]]

\* PruningTables.load of a new object: the move tables are loaded first.
PruningTables_load(move_cache_file, cache_file, force_regenerate) ==
  IF ~force_regenerate /\ cache_file.exists
  THEN [move_tables |-> MoveTables_load(move_cache_file, FALSE).tables,
        tables |-> cache_file.data, cache_file |-> cache_file]
  ELSE [move_tables |-> MoveTables_load(move_cache_file, FALSE).tables,
        tables |-> PruningTableShapes,
        cache_file |-> [exists |-> TRUE, data |-> PruningTableShapes]]

\* PatternDatabase.load_or_generate of a database of the given size.
load_or_generate(size, cache_file) ==
  IF cache_file.exists
  THEN [tables |-> cache_file.data, cache_file |-> cache_file]
  ELSE [tables |-> <<<<size>>>>, cache_file |-> [exists |-> TRUE, data |-> <<<<size>>>>]]

\* The cache files met by a loader whose tables have the shapes expected:
\* none, one of those shapes, and one with a table a row short, a row long
\* or empty.
CacheFiles(expected) ==
  {NoFile}
    \cup {[exists |-> TRUE, data |-> d] :
            d \in {expected}
                    \cup {[expected EXCEPT ![k][1] = @ - 1] : k \in 1..Len(expected)}
                    \cup {[expected EXCEPT ![k][1] = @ + 1] : k \in 1..Len(expected)}
                    \cup {[expected EXCEPT ![k][1] = 0] : k \in 1..Len(expected)}}

MoveTablesLoad ==
  LibReturn("MoveTables.load", MoveTables_load(params.cache_file, params.force_regenerate))

PruningTablesLoad ==
  LibReturn("PruningTables.load",
            PruningTables_load(params.move_cache_file, params.cache_file,
                               params.force_regenerate))

PatternDatabaseLoad ==
  LibReturn("PatternDatabase.load_or_generate",
            load_or_generate(params.size, params.cache_file))

\* The generators of the cubes the phase moves are applied to: moves of
\* phase 1, and the quarter turn F that leaves its group.
PhaseSampleGens == {"U", "R", "F2", "L", "D'", "B2", "F"}

PhaseSampleCubes == {apply_moves(SolvedCube, q) : q \in SeqsUpTo(PhaseSampleGens, 2)}

\* A phase from 1 to 3 and one of its legal moves.
PhaseMoveInputs ==
  UNION {{[phase |-> k, m |-> m] : m \in SeqToSet(ALL_PHASE_MOVES(k))} : k \in 1..3}

\* cube.apply_move(params.m) on a copy of cube.
PhaseMove == LibReturn("RubikCube.apply_move", apply_move(cube, params.m))

NextLib ==
  \/ Phase1Lookup
  \/ Phase2Lookup
  \/ PdbLookup
  \/ Phase1Entries
  \/ Phase2Entries
  \/ BfsGenerate
  \/ CornerOrientationCodec
  \/ EdgeOrientationCodec
  \/ UdsliceCodec
  \/ CornerPermutationCodec
  \/ EdgePermutationCodec
  \/ UdslicePermutationCodec
  \/ EdgeIndexOfState
  \/ TableMovePhase1
  \/ TableMovePhase2
  \/ ApplyMoveToCubie
  \/ MoveTablesLoad
  \/ PruningTablesLoad
  \/ PatternDatabaseLoad
  \/ PhaseMove

InitLib ==
  \/ LibCall("PruningTables.get_phase1_heuristic", SampleCubies, {SolvedCube})
  \/ LibCall("PruningTables.get_phase2_heuristic", SampleG1Cubies, {SolvedCube})
  \/ LibCall("PatternDatabase.lookup", 0..3, InputCubes)
  \/ LibCall("PruningTables.phase1", DeepSampleCubies, {SolvedCube})
  \/ LibCall("PruningTables.phase2", DeepSampleG1Cubies, {SolvedCube})
  \/ LibCall("bfs_generate_pattern_database", RingInputs, {SolvedCube})
  \/ LibCall("coord.corner_orientation", 0..2186, {SolvedCube})
  \/ LibCall("coord.edge_orientation", 0..2047, {SolvedCube})
  \/ LibCall("coord.udslice", 0..494, {SolvedCube})
  \/ LibCall("coord.corner_permutation", 0..40319, {SolvedCube})
  \/ LibCall("coord.edge_permutation", 0..40319, {SolvedCube})
  \/ LibCall("coord.udslice_permutation", 0..23, {SolvedCube})
  \/ LibCall("EdgePatternDatabase.edge_index", EdgeIndexInputs, {SolvedCube})
  \/ LibCall("MoveTables.apply_move_to_coords", MoveInputs(DeepSampleCubies, MoveNames),
             {SolvedCube})
  \/ LibCall("MoveTables.apply_move_to_phase2_coords",
             MoveInputs(DeepSampleG1Cubies, SeqToSet(PHASE2_MOVES)), {SolvedCube})
  \/ LibCall("apply_move_to_cubie", MoveInputs(DeepSampleCubies, MoveNames), {SolvedCube})
  \/ LibCall("MoveTables.load",
             {[cache_file |-> f, force_regenerate |-> b] :
                f \in CacheFiles(MoveTableShapes), b \in BOOLEAN}, {SolvedCube})
  \/ LibCall("PruningTables.load",
             {[move_cache_file |-> g, cache_file |-> f, force_regenerate |-> b] :
                g \in {NoFile, [exists |-> TRUE, data |-> MoveTableShapes]},
                f \in CacheFiles(PruningTableShapes), b \in BOOLEAN}, {SolvedCube})
  \/ LibCall("PatternDatabase.load_or_generate",
             UNION {{[size |-> PatternDatabaseSizes[k], cache_file |-> f] :
                       f \in CacheFiles(<<<<PatternDatabaseSizes[k]>>>>)} : k \in 1..4},
             {SolvedCube})
  \/ LibCall("RubikCube.apply_move", PhaseMoveInputs, PhaseSampleCubes)

SpecLib == InitLib /\ [][NextLib]_vars

(***************************************************************************)
(* Properties of the tables.                                               *)
(***************************************************************************)
\* Is the goal of phase 1 / of phase 2 of the two-phase solver within n
\* moves of the cubie state c; is the goal of a phase of the four-phase
\* solver within n of that phase's moves of the cube s.
Phase1GoalWithin(c, n) ==
  \E q \in SeqsUpTo(MoveNames, n) : is_phase1_solved(apply_moves_to_cubie(c, q))

Phase2GoalWithin(c, n) ==
  \E q \in SeqsUpTo(SeqToSet(PHASE2_MOVES), n) : apply_moves_to_cubie(c, q) = SolvedCubie

PhaseGoalWithin(phase, s, n) ==
  \E q \in SeqsUpTo(SeqToSet(ALL_PHASE_MOVES(phase)), n) : goal_check(phase, apply_moves(s, q))

CoEoGoalWithin(c, n) ==
  \E q \in SeqsUpTo(MoveNames, n) :
    \E d \in {apply_moves_to_cubie(c, q)} :
      get_corner_orientation(d) = 0 /\ get_edge_orientation(d) = 0

EoSliceGoalWithin(c, n) ==
  \E q \in SeqsUpTo(MoveNames, n) :
    \E d \in {apply_moves_to_cubie(c, q)} : get_edge_orientation(d) = 0 /\ get_udslice(d) = 0

Phase2CoordGoalWithin(c, k, n) ==
  \E q \in SeqsUpTo(SeqToSet(PHASE2_MOVES), n) :
    Phase2Coords(apply_moves_to_cubie(c, q))[k] = 0

\* The least number of steps from a point of a ring to point 0.
RingDistance(state_idx, size) == Min2(state_idx, size - state_idx)

\* C13: an entry of a generated table that holds the cap (max_depth in the
\* pruning tables, 15 in the nibble-packed pattern database) belongs to a
\* coordinate whose true distance is at least the cap, so no coordinate
\* nearer than the cap holds the cap.
C13_CapMeansAtLeastCap ==
  /\ LibReturned("PruningTables.phase1") =>
       /\ result.value[1] = PruneMaxDepth => ~CoEoGoalWithin(params, PruneMaxDepth - 1)
       /\ result.value[2] = PruneMaxDepth => ~EoSliceGoalWithin(params, PruneMaxDepth - 1)
  /\ LibReturned("PruningTables.phase2") =>
       \A k \in 1..3 :
         result.value[k] = PruneMaxDepth => ~Phase2CoordGoalWithin(params, k, PruneMaxDepth - 1)
  /\ LibReturned("bfs_generate_pattern_database") =>
       \A i \in 0..(params.size - 1) :
         get_distance(result.value, i) = NibbleCap <=> RingDistance(i, params.size) >= NibbleCap

\* A pruning table was read at a coordinate beyond its depth, and a database
\* was generated that has an entry of distance 16.
C13_Witness ==
  \/ /\ LibReturned("PruningTables.phase1")
     /\ result.value[1] = PruneMaxDepth
     /\ ~CoEoGoalWithin(params, PruneMaxDepth)
  \/ /\ LibReturned("bfs_generate_pattern_database")
     /\ \E i \in 0..(params.size - 1) :
          RingDistance(i, params.size) > NibbleCap /\ get_distance(result.value, i) = NibbleCap

(***************************************************************************)
(* Properties of the coordinates.                                          *)
(***************************************************************************)
CodecNames ==
  {"coord.corner_orientation", "coord.edge_orientation", "coord.udslice",
   "coord.corner_permutation", "coord.edge_permutation", "coord.udslice_permutation"}

\* C14: for each of the six codecs and every value v of the coordinate's
\* range, set_* of v on a solved cubie followed by get_* gives v.
C14_SetThenGet ==
  (solver \in CodecNames /\ pc = "done") => result = Return(params)

\* The last UD-slice coordinate and the last corner permutation were set and
\* read back.
C14_Witness ==
  \/ LibReturned("coord.udslice") /\ params = 494 /\ result.value = 494
  \/ LibReturned("coord.corner_permutation") /\ params = 40319 /\ result.value = 40319

\* C15: for every index v in [0, size) of an EdgePatternDatabase over an
\* edge subset, edge_index(index_to_edge_state(v)) = v.
C15_EdgeIndexRoundTrip ==
  LibReturned("EdgePatternDatabase.edge_index") => result.value = params.index

\* C16: for a reachable cubie state s and each of the 18 moves m, the move
\* tables applied to the phase-1 coordinates of s give the phase-1
\* coordinates of s with m applied; for a state of G1 and each of the 10
\* phase-2 moves the same holds of the phase-2 coordinates.
C16_TablesAgreeWithMoves ==
  /\ LibReturned("MoveTables.apply_move_to_coords") =>
       result.value = Phase1Coords(apply_move_to_cubie(params.s, params.m))
  /\ LibReturned("MoveTables.apply_move_to_phase2_coords") =>
       result.value = Phase2Coords(apply_move_to_cubie(params.s, params.m))

\* A move that changes all three phase-1 coordinates of a scrambled state,
\* and a phase-2 move that changes all three phase-2 coordinates.
C16_Witness ==
  \/ /\ LibReturned("MoveTables.apply_move_to_coords")
     /\ params.s # SolvedCubie
     /\ \A k \in 1..3 : result.value[k] # Phase1Coords(params.s)[k]
  \/ /\ LibReturned("MoveTables.apply_move_to_phase2_coords")
     /\ params.s # SolvedCubie
     /\ \A k \in 1..3 : result.value[k] # Phase2Coords(params.s)[k]

(***************************************************************************)
(* Properties of the cubie moves.                                          *)
(***************************************************************************)
\* X' for X, X for X', X2 for X2.
InverseGenerator(m) ==
  CHOOSE n \in MoveNames : FaceOf(n) = FaceOf(m) /\ TurnsOf(n) = 4 - TurnsOf(m)

\* C17: a generator m applied to a reachable cubie state s and then the
\* inverse generator of m gives exactly s.
C17_MoveThenInverse ==
  LibReturned("apply_move_to_cubie") =>
    apply_move_to_cubie(result.value, InverseGenerator(params.m)) = params.s

\* A quarter turn of a scrambled state that is undone by the opposite turn.
C17_Witness ==
  /\ LibReturned("apply_move_to_cubie")
  /\ params.s # SolvedCubie
  /\ TurnsOf(params.m) = 3
  /\ result.value # params.s
  /\ apply_move_to_cubie(result.value, InverseGenerator(params.m)) = params.s

(***************************************************************************)
(* Properties of the cached tables.                                        *)
(***************************************************************************)
\* The shapes the tables of the loader called must have.
ExpectedShapes ==
  CASE solver = "MoveTables.load" -> MoveTableShapes
    [] solver = "PruningTables.load" -> PruningTableShapes
    [] solver = "PatternDatabase.load_or_generate" -> <<<<params.size>>>>

\* C18: a cached move table, pruning table or pattern database whose size or
\* shape differs from the expected one is rejected at load time and the
\* table is generated again, so the tables held after a load always have
\* the expected shapes.
C18_MismatchedCacheRejected ==
  (solver \in {"MoveTables.load", "PruningTables.load", "PatternDatabase.load_or_generate"}
     /\ pc = "done") =>
    result.value.tables = ExpectedShapes

\* C19: a solve call of ThistlethwaiteSolver on a reachable cube, with or
\* without pattern databases, ends by returning a solution or None, never
\* with an exception of a goal test, a heuristic or a search step.
C19_ThistleNeverRaises ==
  (solver = "ThistlethwaiteSolver.solve" /\ pc = "done") => result.kind \in {"value", "None"}

\* The parity of a permutation of 0..n-1: its number of inversions modulo 2.
PermutationParity(p, n) ==
  Cardinality({ij \in (0..(n - 1)) \X (0..(n - 1)) : ij[1] < ij[2] /\ p[ij[1]] > p[ij[2]]}) % 2

IsValidCubie(c) ==
  /\ {c.corner_perm[i] : i \in Corners} = Corners
  /\ {c.edge_perm[i] : i \in Edges} = Edges
  /\ \A i \in Corners : c.corner_orient[i] \in 0..2
  /\ \A i \in Edges : c.edge_orient[i] \in 0..1
  /\ SumTo(c.corner_orient, 7) % 3 = 0
  /\ SumTo(c.edge_orient, 11) % 2 = 0
  /\ PermutationParity(c.corner_perm, 8) = PermutationParity(c.edge_perm, 12)

\* C20: every cubie state reached from the solved state by a sequence of the
\* 18 moves has corner slots and edge slots that are bijections, a total
\* corner twist of 0 modulo 3, a total edge flip of 0 modulo 2, and a corner
\* permutation of the parity of the edge permutation.
C20_ReachedCubieValid ==
  LibReturned("apply_move_to_cubie") => IsValidCubie(result.value)

\* A state reached by four moves that has twisted corners, flipped edges and
\* odd permutations.
C20_Witness ==
  /\ LibReturned("apply_move_to_cubie")
  /\ params.s \notin SampleCubies
  /\ result.value \notin DeepSampleCubies
  /\ \E i \in Corners : result.value.corner_orient[i] # 0
  /\ \E i \in Edges : result.value.edge_orient[i] # 0
  /\ PermutationParity(result.value.corner_perm, 8) = 1
  /\ IsValidCubie(result.value)

(***************************************************************************)
(* The generation of the tables as a process: one step of                  *)
(* bfs_generate_pattern_database takes the head of its queue and tries its *)
(* moves; one step of the generators of pruning.py and of                  *)
(* PatternDatabase.generate works off the queue entries of one depth.      *)
(* srch holds the state of the generation.                                 *)
(***************************************************************************)
PruneKinds == {"co_eo", "eo_slice", "corner_perm", "edge_perm", "slice_perm"}

\* The goal entry table[0, 0] or table[0] the queue starts with.
PruneGoal(kind) == IF kind \in {"co_eo", "eo_slice"} THEN <<0, 0>> ELSE 0

\* The rings of the generations followed step by step: those of RingInputs
\* and one that is walked one way only.
GenRingInputs == RingInputs \cup {[size |-> 20, moves |-> <<1>>]}

GenCall(f, inputs) ==
  /\ solver = f
  /\ params \in inputs
  /\ cube = SolvedCube
  /\ now = 0
  /\ pc = "generate"
  /\ kcall = NoCall
  /\ loc = NoLoc
  /\ nodes_explored = 0
  /\ result = Running
  /\ tloc = NoTLoc
  /\ ida = NoIda
  /\ astar = NoAStar

InitGen ==
  \/ /\ GenCall("bfs_generate_pattern_database", GenRingInputs)
     /\ srch = [data |-> set_distance(new_data(params.size), 0, 0),
                queue |-> <<<<0, 0>>>>,
                visited |-> {0}]
  \/ /\ GenCall("PruningTables._generate", PruneKinds)
     /\ srch = [layers |-> <<{PruneGoal(params)}>>, seen |-> {PruneGoal(params)}]
  \/ /\ GenCall("PatternDatabase.generate", 0..3)
     /\ srch = [layers |-> <<pdb_at(params, 0).found>>,
                queue |-> pdb_at(params, 0).queue,
                visited |-> pdb_at(params, 0).visited]

GenUnchanged == UNCHANGED <<solver, cube, params, now, kcall, loc, nodes_explored, tloc, ida, astar>>

\* state_idx, depth = queue.popleft() and the loop over the moves.
BfsStep ==
  /\ pc = "generate"
  /\ solver = "bfs_generate_pattern_database"
  /\ srch.queue # <<>>
  /\ srch' = bfs_moves([srch EXCEPT !.queue = Tail(@)], srch.queue[1], params.moves, 1,
                       params.size)
  /\ UNCHANGED <<pc, result>>
  /\ GenUnchanged

\* The queue is empty: db.data is the database.
BfsEnd ==
  /\ pc = "generate"
  /\ solver = "bfs_generate_pattern_database"
  /\ srch.queue = <<>>
  /\ pc' = "done"
  /\ result' = Return(srch.data)
  /\ UNCHANGED srch
  /\ GenUnchanged

\* The queue entries of the depth reached are expanded.
PruneStep ==
  /\ pc = "generate"
  /\ solver = "PruningTables._generate"
  /\ Len(srch.layers) <= PruneMaxDepth
  /\ \E p \in {BfsExpand(params, [frontier |-> srch.layers[Len(srch.layers)],
                                  seen |-> srch.seen])} :
       srch' = [layers |-> Append(srch.layers, p.frontier), seen |-> p.seen]
  /\ UNCHANGED <<pc, result>>
  /\ GenUnchanged

\* The entries of depth max_depth are not expanded: the table is returned.
PruneEnd ==
  /\ pc = "generate"
  /\ solver = "PruningTables._generate"
  /\ Len(srch.layers) > PruneMaxDepth
  /\ pc' = "done"
  /\ result' = Return(srch.layers)
  /\ UNCHANGED srch
  /\ GenUnchanged

PdbStep ==
  /\ pc = "generate"
  /\ solver = "PatternDatabase.generate"
  /\ Len(srch.layers) <= phase_max_depths[params + 1]
  /\ \E p \in {pdb_expand(params, srch.queue, srch.visited)} :
       srch' = [layers |-> Append(srch.layers, p.found), queue |-> p.queue,
                visited |-> p.visited]
  /\ UNCHANGED <<pc, result>>
  /\ GenUnchanged

PdbEnd ==
  /\ pc = "generate"
  /\ solver = "PatternDatabase.generate"
  /\ Len(srch.layers) > phase_max_depths[params + 1]
  /\ pc' = "done"
  /\ result' = Return(srch.layers)
  /\ UNCHANGED srch
  /\ GenUnchanged

NextGen ==
  \/ BfsStep
  \/ BfsEnd
  \/ PruneStep
  \/ PruneEnd
  \/ PdbStep
  \/ PdbEnd

SpecGen == InitGen /\ [][NextGen]_vars

(***************************************************************************)
(* Properties of the generation.                                           *)
(***************************************************************************)
\* The least number of steps of a ring's moves from point 0 to a point.
RingSteps(state_idx, input) ==
  SetMin({a + b : a \in 0..input.size, b \in 0..input.size} \cap
         {ab[1] + ab[2] :
            ab \in {xy \in (0..input.size) \X (0..input.size) :
                      (xy[1] * input.moves[1] + xy[2] * input.moves[Len(input.moves)])
                        % input.size = state_idx}})

\* The entry of a pruning table that belongs to a cubie state.
PruneEntryOf(kind, c) ==
  CASE kind = "co_eo" -> <<get_corner_orientation(c), get_edge_orientation(c)>>
    [] kind = "eo_slice" -> <<get_edge_orientation(c), get_udslice(c)>>
    [] kind = "corner_perm" -> get_corner_permutation(c)
    [] kind = "edge_perm" -> get_edge_permutation(c)
    [] kind = "slice_perm" -> get_udslice_permutation(c)

PruneMovesOf(kind) ==
  IF kind \in {"co_eo", "eo_slice"} THEN MoveNames ELSE SeqToSet(PHASE2_MOVES)

\* The entries of a pruning table within n moves of the solved cubie: those
\* of the cubie states n of the table's moves away or nearer.
PruneWithin ==
  [kind \in PruneKinds |->
     [n \in 0..PruneMaxDepth |->
        {PruneEntryOf(kind, apply_moves_to_cubie(SolvedCubie, q)) :
           q \in SeqsUpTo(PruneMovesOf(kind), n)}]]

\* The coordinates of a phase's database within n moves of the solved cube.
PdbWithin ==
  [phase \in 0..3 |->
     [n \in 0..MaxPhaseDepth |->
        {pdb_get_coord(phase, apply_moves(SolvedCube, q)) :
           q \in SeqsUpTo(SeqToSet(ALL_PHASE_MOVES(phase)), n)}]]

\* The entries at exactly the distance d of a family of "within" sets.
ExactlyAt(within, d) == IF d = 0 THEN within[0] ELSE within[d] \ within[d - 1]

\* C21: while a pruning table or a pattern database is generated, every
\* entry that has been given a distance has its true shortest distance from
\* the solved entry (or the cap), and when the entries of one distance have
\* been given theirs, every entry of that true distance has it: each
\* reachable entry is given its distance once, in the order of the distances.
C21_GeneratedDistancesTrue ==
  /\ solver = "bfs_generate_pattern_database" =>
       \A i \in srch.visited :
         get_distance(srch.data, i) = Min2(RingSteps(i, params), NibbleCap)
  /\ solver = "PruningTables._generate" =>
       \A d \in 1..Len(srch.layers) :
         srch.layers[d] = ExactlyAt(PruneWithin[params], d - 1)
  /\ solver = "PatternDatabase.generate" =>
       \A d \in 1..Len(srch.layers) :
         srch.layers[d] = ExactlyAt(PdbWithin[params], d - 1)

(***************************************************************************)
(* Properties of the iterations of the searches.                           *)
(***************************************************************************)
\* The least f = g + h above the bound among the nodes _search_recursive /
\* _search reaches from the cube s at cost g under that bound.
RECURSIVE MinExceed(_, _, _, _, _)
MinExceed(ctx, s, g, last_move, bound) ==
  At(g * Scale + IHeuristic(ctx, s), LAMBDA f :
    IF f > bound THEN f
    ELSE IF IGoal(ctx, s) THEN INF
    ELSE At({MinExceed(ctx, apply_move(s, m), g + 1, m, bound) :
               m \in {x \in SeqToSet(IMoves(ctx)) :
                        last_move = "" \/ ~is_redundant_move(last_move, x)}},
            LAMBDA found : IF found = {} THEN INF ELSE SetMin(found)))

\* The cube an IDA* search starts from.
SearchStart == IF ida.ctx[1] = "phase" THEN tloc.current_cube ELSE cube

\* An IDA* search is set up: its bound is h(start).
IdaFirstBound ==
  (pc \in {"i_solve", "t_phase"} /\ pc' \in {"i_loop", "t_search_loop"}) =>
    ida'.bound = IHeuristic(ida'.ctx, SearchStart')

\* An iteration of an IDA* search ends without a solution: the bound grows,
\* to the least f that exceeded it unless the clock stopped a branch, and
\* then no iteration follows.
IdaNextBound ==
  /\ (pc \in {"i_search", "t_search"} /\ pc' \in {"i_loop", "t_search_loop"}) =>
       /\ ida'.bound > ida.bound
       /\ \/ ida'.bound = MinExceed(ida.ctx, SearchStart, 0, "", ida.bound)
          \/ now' - ida.start_time > ida.timeout
  /\ (pc \in {"i_loop", "t_search_loop"} /\ pc' \in {"i_search", "t_search"}) =>
       now - ida.start_time <= ida.timeout

KSearching == pc \in {"k_phase1_search", "k_phase2_search"}

KLoopHead == pc \in {"k_phase1_loop", "k_phase2_loop"}

\* An iteration of a phase of the two-phase solver ends without a solution:
\* the depth grows.
KDepthGrows == (KSearching /\ KLoopHead') => srch'.depth > srch.depth

\* A phase of the two-phase solver is set up with the depth h(start).
KFirstDepthIsHeuristic ==
  /\ (pc # "k_phase1_search" /\ pc' = "k_phase1_loop") =>
       srch'.depth = get_phase1_heuristic(Phase1Coords(loc'.cubie))
  /\ (pc # "k_phase2_search" /\ pc' = "k_phase2_loop") =>
       srch'.depth = get_phase2_heuristic(Phase2Coords(loc'.cubie))

\* C22 as stated: in every bounded-depth search the first iteration uses the
\* bound h(start) and each later one the least f that exceeded the bound
\* before, so the bounds grow.
C22_BoundsFromHeuristic ==
  [][IdaFirstBound /\ IdaNextBound /\ KFirstDepthIsHeuristic /\ KDepthGrows]_vars

\* C22, amended: that holds of the IDA* searches of IDAStarSearch and
\* IDAStarSolver; the phases of the two-phase solver start with the depth 0
\* and take the next depth, one more, for each later iteration.
C22_BoundsIncrease ==
  [][/\ IdaFirstBound
     /\ IdaNextBound
     /\ (~KSearching /\ KLoopHead') => srch'.depth = 0
     /\ (KSearching /\ KLoopHead') => srch'.depth = srch.depth + 1]_vars

\* The second iteration of an IDA* search runs with the least f that
\* exceeded h(start), and the two-phase solver is at its third depth.
C22_Witness ==
  \/ /\ pc = "i_search"
     /\ ida.bound > IHeuristic(ida.ctx, cube)
     /\ ida.bound = MinExceed(ida.ctx, cube, 0, "", IHeuristic(ida.ctx, cube))
  \/ /\ pc = "k_phase1_search"
     /\ srch.depth = 2

(***************************************************************************)
(* Redundant moves of the searches.                                        *)
(***************************************************************************)
OppositeFaces == {<<"U", "D">>, <<"F", "B">>, <<"L", "R">>}

Searching == pc \in {"k_phase1_search", "k_phase2_search", "i_search", "t_search", "a_loop"}

\* The moves the running search loops over.
SearchMoves ==
  CASE pc = "k_phase1_search" -> KMoves(1)
    [] pc = "k_phase2_search" -> KMoves(2)
    [] pc = "a_loop" -> AStarSolver_ALL_MOVES
    [] OTHER -> IMoves(ida.ctx)

\* The running search expands move after the move prev.
Expanded(prev, move) ==
  CASE pc = "k_phase1_search" -> ~KPruned(1, prev, move)
    [] pc = "k_phase2_search" -> ~KPruned(2, prev, move)
    [] OTHER -> ~is_redundant_move(prev, move)

SameFaceNeverExpanded ==
  Searching => \A a, b \in SeqToSet(SearchMoves) : FaceOf(a) = FaceOf(b) => ~Expanded(a, b)

OneOrderOfOpposites ==
  Searching => \A a, b \in SeqToSet(SearchMoves) :
                 <<FaceOf(a), FaceOf(b)>> \in OppositeFaces => (Expanded(a, b) # Expanded(b, a))

\* No two consecutive moves of path are rejected by the test of the
\* two-phase solver's first phase (kociemba TRUE) or by _is_redundant_move.
CleanPath(path, kociemba) ==
  \A k \in 1..(Len(path) - 1) :
    IF kociemba THEN ~KPruned(1, path[k], path[k + 1])
    ELSE ~is_redundant_move(path[k], path[k + 1])

SolutionHasNoRedundantPair ==
  (pc = "done" /\ result.kind = "value") =>
    IF KociembaEntry THEN CleanPath(ReturnedMoves, TRUE)
    ELSE IF solver = "ThistlethwaiteSolver.solve"
      THEN CleanPath(ReturnedMoves, TRUE) \/ CleanPath(ReturnedMoves, FALSE)
    ELSE CleanPath(ReturnedMoves, FALSE)

\* C23: in every search a move on the face of the preceding move is never
\* expanded, exactly one of the two orders of each pair of opposite faces is
\* expanded, and no returned solution holds two consecutive moves on one
\* face or an opposite pair in the order that is not expanded.
C23_NoRedundantMoves ==
  /\ SameFaceNeverExpanded
  /\ OneOrderOfOpposites
  /\ SolutionHasNoRedundantPair

(***************************************************************************)
(* What a recursive search leaves alone.                                   *)
(***************************************************************************)
\* The moves of the frames above the root, read off the frames.
FrameMoves(stack) == [k \in 1..(Len(stack) - 1) |-> stack[k + 1].last_move]

\* The calls that are still running after a step hold the cube, the g and
\* the last move of their path they held before it.
ICallersKept(old, new) ==
  \A k \in 1..(Len(new) - 1) :
    /\ k <= Len(old)
    /\ new[k].s = old[k].s
    /\ new[k].g = old[k].g
    /\ new[k].last_move = old[k].last_move

KCallersKept(old, new) ==
  \A k \in 1..(Len(new) - 1) :
    /\ k <= Len(old)
    /\ new[k].c = old[k].c
    /\ new[k].depth = old[k].depth
    /\ new[k].last_move = old[k].last_move

ISearching == pc \in {"i_search", "t_search"}

CallersKept ==
  /\ (ISearching /\ pc' = pc) => ICallersKept(ida.stack, ida'.stack)
  /\ (KSearching /\ pc' = pc) => KCallersKept(srch.stack, srch'.stack)

\* A solution that a search returns is the path of the call that found the
\* goal, and the solutions of earlier phases stay what they were.
SolutionKept ==
  /\ (pc = "i_search" /\ pc' = "done" /\ result'.kind = "value") =>
       result'.value = FrameMoves(ida.stack)
  /\ (pc = "t_search" /\ pc' = "t_phase") =>
       tloc'.phase_solutions = Append(tloc.phase_solutions, FrameMoves(ida.stack))
  /\ (pc \in {"t_search_loop", "t_search"} /\ pc' \in {"t_search_loop", "t_search"}) =>
       tloc'.phase_solutions = tloc.phase_solutions
  /\ (pc = "k_phase1_search" /\ pc' = "k_verify") =>
       loc'.phase1_solution = FrameMoves(srch.stack)
  /\ (pc \in {"k_verify", "k_phase2_loop", "k_phase2_search"}) =>
       loc'.phase1_solution = loc.phase1_solution
  /\ (pc = "k_phase2_search" /\ pc' = "done" /\ result'.kind = "value"
      /\ solver = "KociembaSolver.solve") =>
       result'.value = <<loc.phase1_solution \o FrameMoves(srch.stack),
                         loc.phase1_solution, FrameMoves(srch.stack)>>

PdbSize == 3

\* The distances handed to set_distance.
DistanceInputs == {0, 1, 14, 15, 16, 20}

\* PatternDatabase(size): no call of set_distance yet.
InitPdb ==
  /\ solver = "PatternDatabase.set_distance"
  /\ cube = SolvedCube
  /\ params = <<>>
  /\ now = 0
  /\ pc = "call"
  /\ kcall = NoCall
  /\ loc = NoLoc
  /\ srch = [data |-> new_data(PdbSize)]
  /\ nodes_explored = 0
  /\ result = Running
  /\ tloc = NoTLoc
  /\ ida = NoIda
  /\ astar = NoAStar

\* set_distance(index, distance): an index out of range raises ValueError
\* and writes nothing.
SetDistance ==
  /\ solver = "PatternDatabase.set_distance"
  /\ \E index \in -1..PdbSize, distance \in DistanceInputs :
       /\ params' = [index |-> index, distance |-> distance]
       /\ IF index < 0 \/ index >= PdbSize
            THEN result' = Raise("ValueError") /\ UNCHANGED srch
          ELSE /\ result' = ReturnNone
               /\ srch' = [srch EXCEPT !.data = set_distance(@, index, distance)]
  /\ UNCHANGED <<solver, cube, now, pc, kcall, loc, nodes_explored, tloc, ida, astar>>

NextPdb == SetDistance

SpecPdb == InitPdb /\ [][NextPdb]_vars

\* C25: after any sequence of set_distance calls, get_distance(i) is
\* min(d, 15) for the last distance d set at the index i, and a set_distance
\* at i changes get_distance(j) for no other index j, the index in the byte
\* of i included.
C25_SetThenGetNibble ==
  [][(solver = "PatternDatabase.set_distance" /\ result'.kind = "None") =>
       \A j \in 0..(PdbSize - 1) :
         get_distance(srch'.data, j) =
           IF j = params'.index THEN Min2(params'.distance, NibbleCap)
           ELSE get_distance(srch.data, j)]_vars

\* Index 0 was set to 14 and then index 1, in the same byte, to a distance
\* above 15.
C25_Witness ==
  /\ solver = "PatternDatabase.set_distance"
  /\ result.kind = "None"
  /\ params = [index |-> 1, distance |-> 20]
  /\ get_distance(srch.data, 0) = 14

(***************************************************************************)
(* The moves of a phase and the goals of the phases before it.             *)
(***************************************************************************)
\* The goal check of phase e returns True on s.
GoalSatisfied(e, s) == ~goal_check_raises(e, s) /\ goal_check(e, s)

EarlierGoalsSatisfied(k, s) == \A e \in 0..(k - 1) : GoalSatisfied(e, s)

PairMaxDepth == 5
PairTimeout == 5000

\* The scrambles of the cubes both solvers are called on.  The third has a
\* solution of 3 moves and, as U2 D2 commutes with F2 B2, one of 5 moves
\* that no redundancy test prunes.
PairScrambles ==
  {<<"U", "R">>, <<"F", "D2">>, <<"U2", "D2", "F2">>}

PairCubes == {apply_moves(SolvedCube, q) : q \in PairScrambles}

InitPair ==
  /\ solver = "AStarSolver.solve"
  /\ pc = "a_solve"
  /\ params \in [heuristic : HeuristicNames, max_depth : {PairMaxDepth},
                 timeout : {PairTimeout}, memory_limit_mb : {DefaultMemory}]
  /\ cube \in PairCubes
  /\ now = 0
  /\ kcall = NoCall
  /\ loc = NoLoc
  /\ srch = NoSearch
  /\ nodes_explored = 0
  /\ result = Running
  /\ tloc = NoTLoc
  /\ ida = NoIda
  /\ astar = NoAStar

\* AStarSolver.solve has returned: its value is kept and
\* IDAStarSolver(heuristic, max_depth, timeout).solve(cube) is called.
CallIDAStar ==
  /\ solver = "AStarSolver.solve"
  /\ pc = "done"
  /\ solver' = "IDAStarSolver.solve"
  /\ pc' = "i_solve"
  /\ srch' = [solution_a |-> result]
  /\ result' = Running
  /\ astar' = NoAStar
  /\ UNCHANGED <<cube, params, now, kcall, loc, nodes_explored, tloc, ida>>

NextPair ==
  \/ ISolve
  \/ ILoop
  \/ ISearch
  \/ ASolve
  \/ ALoop
  \/ CallIDAStar

SpecPair == InitPair /\ [][NextPair]_vars

BothReturned ==
  /\ solver = "IDAStarSolver.solve"
  /\ pc = "done"
  /\ result.kind = "value"
  /\ srch.solution_a.kind = "value"

\* The length of the longest scramble of PairScrambles.
PairScrambleLen == 3

\* The least number of moves that solve a cube of PairCubes.
PairOptimalLength(c) == SetMin({n \in 0..PairScrambleLen : SolvableWithin(c, n)})

KNodeInTime ==
  (KSearching /\ ~timed_out(now', srch.start_time, srch.timeout)) =>
    now' - loc.start_time <= kcall.timeout + kcall.timeout_grace

\* ThistlethwaiteSolver.solve with max_time runs no call of a phase search
\* and no call of a search of its fallback once max_time has elapsed.
TSearchInTime ==
  (/\ solver = "ThistlethwaiteSolver.solve"
   /\ params.max_time # <<>>
   /\ pc \in {"t_search", "k_phase1_search", "k_phase2_search"}
   /\ now' # now) =>
    now - tloc.total_start_time < params.max_time[1]

\* C28: a solve call with a time limit does not search past it:
\* KociembaSolver.solve expands no node later than timeout + timeout_grace
\* after its search started, and ThistlethwaiteSolver.solve with max_time
\* runs no phase search and no fallback search after max_time has elapsed.
C28_NoSearchPastLimit == [][KNodeInTime /\ TSearchInTime]_vars

(***************************************************************************)
(* The pruning tables of a process and the cache files, kept as the max    *)
(* depth they were generated for: get_pruning_tables(cache_dir).load(...)  *)
(* called again and again, in one process and in the next.                 *)
(***************************************************************************)
\* The max depths asked for: the depth of the tables of the model, the
\* default of load and the one KociembaSolver._initialize asks for.
LoadDepths == {PruneMaxDepth, 12, 15}

\* The cache directories: the default of get_pruning_tables and the one of
\* KociembaSolver().
CacheDirs == {"data/pruning_tables", "data/kociemba/pruning_tables"}

\* _pruning_tables = None
NoPruningTables == [cache_dir |-> "", loaded |-> FALSE, max_depth |-> 0]

\* PruningTables(cache_dir): nothing loaded.
NewPruningTables(cache_dir) == [cache_dir |-> cache_dir, loaded |-> FALSE, max_depth |-> 0]

NoDepthFile == [exists |-> FALSE, max_depth |-> 0]

\* get_pruning_tables(cache_dir): the global object, made at the first call.
get_pruning_tables(pruning_tables, cache_dir) ==
  IF pruning_tables = NoPruningTables THEN NewPruningTables(cache_dir) ELSE pruning_tables

\* load(force_regenerate, max_depth) on the object tables with the cache
\* file cache_file of its directory: the object and the file afterwards.
PruningTables_load_max_depth(tables, cache_file, force_regenerate, max_depth) ==
  IF tables.loaded /\ ~force_regenerate
  THEN [tables |-> tables, cache_file |-> cache_file]
  ELSE IF ~force_regenerate /\ cache_file.exists
  THEN [tables |-> [tables EXCEPT !.loaded = TRUE, !.max_depth = cache_file.max_depth],
        cache_file |-> cache_file]
  ELSE [tables |-> [tables EXCEPT !.loaded = TRUE, !.max_depth = max_depth],
        cache_file |-> [exists |-> TRUE, max_depth |-> max_depth]]

\* A process starts with _pruning_tables = None; each cache directory has
\* no file or the file an earlier process left.
InitCache ==
  /\ solver = "get_pruning_tables.load"
  /\ cube = SolvedCube
  /\ params = <<>>
  /\ now = 0
  /\ pc = "call"
  /\ kcall = NoCall
  /\ loc = NoLoc
  /\ srch \in [pruning_tables : {NoPruningTables},
               files : [CacheDirs -> {NoDepthFile}
                                       \cup {[exists |-> TRUE, max_depth |-> d] :
                                               d \in LoadDepths}]]
  /\ nodes_explored = 0
  /\ result = Running
  /\ tloc = NoTLoc
  /\ ida = NoIda
  /\ astar = NoAStar

CacheUnchanged ==
  UNCHANGED <<solver, cube, now, kcall, loc, nodes_explored, tloc, ida, astar>>

\* get_pruning_tables(cache_dir).load(force_regenerate, max_depth)
GetAndLoad ==
  /\ solver = "get_pruning_tables.load"
  /\ \E cache_dir \in CacheDirs, force_regenerate \in BOOLEAN, max_depth \in LoadDepths :
       /\ params' = [cache_dir |-> cache_dir, force_regenerate |-> force_regenerate,
                     max_depth |-> max_depth]
       /\ \E tables \in {get_pruning_tables(srch.pruning_tables, cache_dir)} :
            \E r \in {PruningTables_load_max_depth(tables, srch.files[tables.cache_dir],
                                                   force_regenerate, max_depth)} :
              srch' = [pruning_tables |-> r.tables,
                       files |-> [srch.files EXCEPT ![tables.cache_dir] = r.cache_file]]
  /\ pc' = "done"
  /\ result' = ReturnNone
  /\ CacheUnchanged

\* The process ends and the next one starts: the module is loaded again,
\* the cache files stay.
NextProcess ==
  /\ solver = "get_pruning_tables.load"
  /\ pc = "done"
  /\ pc' = "call"
  /\ srch' = [srch EXCEPT !.pruning_tables = NoPruningTables]
  /\ result' = Running
  /\ UNCHANGED params
  /\ CacheUnchanged

NextCache == GetAndLoad \/ NextProcess

SpecCache == InitCache /\ [][NextCache]_vars

\* C29: a load request for the max depth d never serves tables generated
\* for another max depth, from the cache file or from the object an earlier
\* load of the process has filled.
C29_TablesKeyedByMaxDepth ==
  (solver = "get_pruning_tables.load" /\ pc = "done") =>
    srch.pruning_tables.max_depth = params.max_depth

(***************************************************************************)
(* The counters of AStarSolver.                                            *)
(***************************************************************************)
\* C30: after a call of AStarSolver.solve that explored at least one node,
\* nodes_generated is at least nodes_explored.
C30_GeneratedAtLeastExplored ==
  (solver = "AStarSolver.solve" /\ pc = "done" /\ nodes_explored >= 1) =>
    astar.nodes_generated >= nodes_explored
=============================================================================
